---- MODULE Spec2Model ----
(***************************************************************************)
(* Command dispatch and notification list of the triage bot.               *)
(*                                                                         *)
(*  - handle_github  (src/src/handlers.rs, github_handlers!)               *)
(*  - handle_zulip   (src/src/handlers.rs, zulip_handlers!) and            *)
(*    zulip::respond (src/src/zulip.rs)                                    *)
(*  - the notification-management handler                                  *)
(*    (src/src/handlers/manage_notifs.rs) over the per-owner notification  *)
(*    list kept by db::notifications                                       *)
(*                                                                         *)
(* Strings whose content is inspected by the code (positions, URLs) are    *)
(* sequences of one-character strings; texts that are only passed on are   *)
(* sequences of fragments.                                                 *)
(***************************************************************************)
EXTENDS Integers, Sequences, FiniteSets, TLC

VARIABLES
    gh_pc,        \* position of handle_github: "idle", "handlers", "notification", "rustc_commits", "returned"
    gh_config,    \* the result of config::get for the event being dispatched
    gh_next,      \* index in GithubHandlers of the next handler of the expansion
    gh_parsed,    \* parse_input calls made for this event, in order
    gh_executed,  \* handle_input calls made for this event, in order (the handlers' effects)
    gh_post,      \* post-processing steps invoked for this event, in order
    gh_log,       \* errors logged by log::error! for this event
    gh_result     \* value returned by handle_github, NoResult while running

VARIABLES
    channel,      \* what this run follows: the "github" or the "zulip" webhook, the "parser", "concurrent" chat
                  \* messages, a chat "message" from its tokens, a "relabel" chat command, or "check_filter"
    store,        \* db::notifications: for each owner (GitHub id) the set of entries, each with its idx
    z_pc,         \* position of zulip::respond: "idle", "relabel", "manage_notifs", "returned"
    z_req,        \* the zulip::Request being handled (sender and what its data parses to)
    z_parsed,     \* parse_input calls made for this message, in order
    z_executed,   \* handle_input calls made for this message, in order
    z_replies,    \* texts sent with req.message.reply for this message
    z_before,     \* the store as it was when handle_input of manage_notifs was entered
    z_db,         \* the db::notifications call made for this message and what it returned
    z_out,        \* what the notification command function returned
    z_result,     \* value returned by handle_zulip, NoResult while running
    z_response    \* content of the Response that respond returns

VARIABLES
    p_pc,         \* position of a caller of NotifCommand::parse: "idle", "parsed"
    p_input,      \* the caller's cursor when parse was called: the tokens not yet read
    p_result,     \* what parse returned
    p_toks,       \* the cursor `toks` of parse when it returned
    p_cursor      \* the caller's cursor after the call

VARIABLES
    t_task,       \* the chat messages in flight at the same time, each with its position in handle_input
    t_start,      \* the store as it was when the first of them arrived
    t_order       \* the tasks whose db::notifications call was made, in the order of the calls

VARIABLES
    r_pc,         \* position of the relabel chat handler: "idle", "handle_zulip_input", "returned"
    r_req,        \* the relabel command being handled, its sender, the issue and its configuration
    r_labels,     \* the labels of the issue on the code-hosting platform
    r_github_id,  \* what zulip::to_github_id returned, NotCalled before
    r_membership, \* the membership handle_input was called with, NotCalled before
    r_checks,     \* the calls of check_filter made and their results, in order
    r_comments,   \* the error comments whose post was attempted
    r_set_labels, \* the label lists set_labels was called with
    r_replies,    \* texts sent with req.message.reply
    r_result      \* value handle_zulip returns for the message, NoResult while running

gh_vars == <<gh_pc, gh_config, gh_next, gh_parsed, gh_executed, gh_post, gh_log, gh_result>>

z_vars == <<z_pc, z_req, z_parsed, z_executed, z_replies, z_before, z_db, z_out, z_result, z_response>>

p_vars == <<p_pc, p_input, p_result, p_toks, p_cursor>>

t_vars == <<t_task, t_start, t_order>>

r_vars == <<r_pc, r_req, r_labels, r_github_id, r_membership, r_checks, r_comments,
           r_set_labels, r_replies, r_result>>

vars == <<channel, gh_vars, store, z_vars, p_vars, t_vars, r_vars>>

----------------------------------------------------------------------------
(* handlers.rs: HandlerError and the registration lists                    *)

NoResult == [kind |-> "Running"]

OkResult == [kind |-> "Ok"]

HandlerErrorMessage(msg) == [kind |-> "Message", text |-> msg]

HandlerErrorOther(err) == [kind |-> "Other", error |-> err]

GithubHandlers ==
    <<"assign", "relabel", "ping", "nominate", "prioritize",
      "major_change", "glacier", "autolabel", "notify_zulip">>

GithubHandlerNames == {GithubHandlers[i] : i \in 1..Len(GithubHandlers)}

ZulipHandlers == <<"relabel", "manage_notifs">>

PostSteps == <<"notification", "rustc_commits">>

\* config::get: Ok(config) with the set of feature sections that are Some,
\* or one of the three ConfigurationError classes.
ConfigurationErrors == {"Missing", "Toml", "Http"}

ConfigResults ==
    [kind : {"Ok"}, sections : SUBSET GithubHandlerNames]
        \cup [kind : ConfigurationErrors]

\* e.to_string() of a ConfigurationError
ConfigErrorText(kind) == <<"ConfigurationError: ", kind>>

\* the String a handler's parse_input returns in Err
ParseErrorText(name) == <<"Parsing command for ", name, " failed">>

\* the anyhow::Error a handler's handle_input returns
ExecuteError(name) == <<"handle_input of ", name, " failed">>

\* the format! of the feature gate; the markdown code quotes are written '
NotEnabledText(name) ==
    <<"The feature '", name, "' is not enabled in this repository.\n",
      "To enable it add its section in the 'triagebot.toml' ",
      "in the root of the repository.">>

----------------------------------------------------------------------------
(* handle_github                                                           *)

\* faulty variant: the parse error is wrapped as an internal error
ParseFailureAsOther(msg) == HandlerErrorOther(msg)

\* parse_input(..).map_err(HandlerError::Message)?
ParseFailure(msg) == HandlerErrorMessage(msg)

\* config.as_ref().ok().and_then(|c| c.$name.as_ref())
ConfigSection(config, name) ==
    IF config.kind = "Ok" /\ name \in config.sections THEN "Some" ELSE "None"

\* faulty variant: the transient class is shown to the user like the other two
ConfigFailureAllMessages(config) ==
    IF config.kind = "Ok" THEN NoResult
    ELSE HandlerErrorMessage(ConfigErrorText(config.kind))

\* the match on &config after parse_input returned Some(input): the error
\* handle_github returns, or NoResult when the configuration was loaded
ConfigFailure(config) ==
    CASE config.kind = "Ok" -> NoResult
      [] config.kind = "Missing" -> HandlerErrorMessage(ConfigErrorText("Missing"))
      [] config.kind = "Toml" -> HandlerErrorMessage(ConfigErrorText("Toml"))
      [] config.kind = "Http" -> HandlerErrorOther(ConfigErrorText("Http"))

\* faulty variant: the feature gate lets every handler through
FeatureEnabledAlways(config, name) == TRUE

\* if let Some(config) = &config.$name { handle_input } else { return Err(..) }
FeatureEnabled(config, name) == name \in config.sections

ParseCall(name, outcome) ==
    [name |-> name, config |-> ConfigSection(gh_config, name), outcome |-> outcome]

\* an event arrives: let config = config::get(&ctx.github, event.repo_name()).await
GithubReceive ==
    /\ channel = "github"
    /\ gh_pc = "idle"
    /\ \E c \in ConfigResults : gh_config' = c
    /\ gh_pc' = "handlers"
    /\ gh_next' = 1
    /\ gh_parsed' = <<>>
    /\ gh_executed' = <<>>
    /\ gh_post' = <<>>
    /\ gh_log' = <<>>
    /\ gh_result' = NoResult
    /\ UNCHANGED <<channel, r_vars, p_vars, t_vars, store, z_vars>>

InHandlers == gh_pc = "handlers" /\ gh_next <= Len(GithubHandlers)

Return(result) ==
    /\ gh_pc' = "returned"
    /\ gh_result' = result

\* parse_input returned Ok(None): the expansion goes on to the next handler
GithubParseNone ==
    /\ InHandlers
    /\ gh_parsed' = Append(gh_parsed, ParseCall(GithubHandlers[gh_next], "None"))
    /\ gh_next' = gh_next + 1
    /\ UNCHANGED <<gh_pc, gh_config, gh_executed, gh_post, gh_log, gh_result>>
    /\ UNCHANGED <<channel, r_vars, p_vars, t_vars, store, z_vars>>

\* parse_input returned Err(msg): .map_err(HandlerError::Message)?
GithubParseError ==
    /\ InHandlers
    /\ gh_parsed' = Append(gh_parsed, ParseCall(GithubHandlers[gh_next], "Err"))
    /\ Return(ParseFailure(ParseErrorText(GithubHandlers[gh_next])))
    /\ UNCHANGED <<gh_config, gh_next, gh_executed, gh_post, gh_log>>
    /\ UNCHANGED <<channel, r_vars, p_vars, t_vars, store, z_vars>>

\* parse_input returned Ok(Some(input)) and the configuration failed to load
GithubConfigError ==
    /\ InHandlers
    /\ gh_config.kind # "Ok"
    /\ gh_parsed' = Append(gh_parsed, ParseCall(GithubHandlers[gh_next], "Some"))
    /\ Return(ConfigFailure(gh_config))
    /\ UNCHANGED <<gh_config, gh_next, gh_executed, gh_post, gh_log>>
    /\ UNCHANGED <<channel, r_vars, p_vars, t_vars, store, z_vars>>

\* parse_input returned Ok(Some(input)) and config.$name is None
GithubNotEnabled ==
    /\ InHandlers
    /\ gh_config.kind = "Ok"
    /\ ~FeatureEnabled(gh_config, GithubHandlers[gh_next])
    /\ gh_parsed' = Append(gh_parsed, ParseCall(GithubHandlers[gh_next], "Some"))
    /\ Return(HandlerErrorMessage(NotEnabledText(GithubHandlers[gh_next])))
    /\ UNCHANGED <<gh_config, gh_next, gh_executed, gh_post, gh_log>>
    /\ UNCHANGED <<channel, r_vars, p_vars, t_vars, store, z_vars>>

\* faulty variant: first match wins, the handlers after the one that
\* executed are skipped
AfterExecuteOkSkipsRest(next) == Len(GithubHandlers) + 1

\* the handler the expansion goes on with when handle_input returned Ok(())
AfterExecuteOk(next) == next + 1

\* parse_input returned Ok(Some(input)), config.$name is Some: handle_input
\* is called and returns Ok(())
GithubExecuteOk ==
    /\ InHandlers
    /\ gh_config.kind = "Ok"
    /\ FeatureEnabled(gh_config, GithubHandlers[gh_next])
    /\ gh_parsed' = Append(gh_parsed, ParseCall(GithubHandlers[gh_next], "Some"))
    /\ gh_executed' = Append(gh_executed, GithubHandlers[gh_next])
    /\ gh_next' = AfterExecuteOk(gh_next)
    /\ UNCHANGED <<gh_pc, gh_config, gh_post, gh_log, gh_result>>
    /\ UNCHANGED <<channel, r_vars, p_vars, t_vars, store, z_vars>>

\* ... handle_input is called and returns Err(e): .map_err(HandlerError::Other)?
GithubExecuteError ==
    /\ InHandlers
    /\ gh_config.kind = "Ok"
    /\ FeatureEnabled(gh_config, GithubHandlers[gh_next])
    /\ gh_parsed' = Append(gh_parsed, ParseCall(GithubHandlers[gh_next], "Some"))
    /\ gh_executed' = Append(gh_executed, GithubHandlers[gh_next])
    /\ Return(HandlerErrorOther(ExecuteError(GithubHandlers[gh_next])))
    /\ UNCHANGED <<gh_config, gh_next, gh_post, gh_log>>
    /\ UNCHANGED <<channel, r_vars, p_vars, t_vars, store, z_vars>>

\* the end of the $( ... )* expansion
GithubHandlersDone ==
    /\ gh_pc = "handlers"
    /\ gh_next > Len(GithubHandlers)
    /\ gh_pc' = "notification"
    /\ UNCHANGED <<gh_config, gh_next, gh_parsed, gh_executed, gh_post, gh_log, gh_result>>
    /\ UNCHANGED <<channel, r_vars, p_vars, t_vars, store, z_vars>>

\* what `if let Err(e) = step(ctx, event).await { log::error!(..) }` leaves
\* in the log
LogPostError(log, step, outcome) ==
    IF outcome = "Err" THEN Append(log, step) ELSE log

\* faulty variant: the error of a post-processing step is propagated with `?`
AfterPostStepPropagates(result, outcome) ==
    IF outcome = "Err" THEN HandlerErrorOther(<<"post-processing failed">>) ELSE result

\* the value handle_github goes on with after a post-processing step
AfterPostStep(result, outcome) == result

\* if let Err(e) = notification::handle(ctx, event).await { log::error!(..) }
GithubNotification ==
    /\ gh_pc = "notification"
    /\ \E outcome \in {"Ok", "Err"} :
        /\ gh_post' = Append(gh_post, [step |-> "notification", outcome |-> outcome])
        /\ gh_log' = LogPostError(gh_log, "notification", outcome)
        /\ gh_result' = AfterPostStep(gh_result, outcome)
        /\ gh_pc' = IF gh_result' = NoResult THEN "rustc_commits" ELSE "returned"
    /\ UNCHANGED <<gh_config, gh_next, gh_parsed, gh_executed>>
    /\ UNCHANGED <<channel, r_vars, p_vars, t_vars, store, z_vars>>

\* if let Err(e) = rustc_commits::handle(ctx, event).await { log::error!(..) }
\* Ok(())
GithubRustcCommits ==
    /\ gh_pc = "rustc_commits"
    /\ \E outcome \in {"Ok", "Err"} :
        /\ gh_post' = Append(gh_post, [step |-> "rustc_commits", outcome |-> outcome])
        /\ gh_log' = LogPostError(gh_log, "rustc_commits", outcome)
        /\ LET r == AfterPostStep(gh_result, outcome)
           IN  gh_result' = IF r = NoResult THEN OkResult ELSE r
    /\ gh_pc' = "returned"
    /\ UNCHANGED <<gh_config, gh_next, gh_parsed, gh_executed>>
    /\ UNCHANGED <<channel, r_vars, p_vars, t_vars, store, z_vars>>

\* the caller has taken the result; the next event can be dispatched
GithubReturned ==
    /\ gh_pc = "returned"
    /\ gh_pc' = "idle"
    /\ gh_config' = [kind |-> "Missing"]
    /\ gh_next' = 1
    /\ gh_parsed' = <<>>
    /\ gh_executed' = <<>>
    /\ gh_post' = <<>>
    /\ gh_log' = <<>>
    /\ gh_result' = NoResult
    /\ UNCHANGED <<channel, r_vars, p_vars, t_vars, store, z_vars>>

GithubInit ==
    /\ gh_pc = "idle"
    /\ gh_config = [kind |-> "Missing"]
    /\ gh_next = 1
    /\ gh_parsed = <<>>
    /\ gh_executed = <<>>
    /\ gh_post = <<>>
    /\ gh_log = <<>>
    /\ gh_result = NoResult

GithubNext ==
    \/ GithubReceive
    \/ GithubParseNone
    \/ GithubParseError
    \/ GithubConfigError
    \/ GithubNotEnabled
    \/ GithubExecuteOk
    \/ GithubExecuteError
    \/ GithubHandlersDone
    \/ GithubNotification
    \/ GithubRustcCommits
    \/ GithubReturned

----------------------------------------------------------------------------
(* Strings                                                                 *)

Digits == <<"0", "1", "2", "3", "4", "5", "6", "7", "8", "9">>

IsDigit(c) == \E i \in 1..Len(Digits) : Digits[i] = c

DigitValue(c) == (CHOOSE i \in 1..Len(Digits) : Digits[i] = c) - 1

RECURSIVE DigitsValue(_)
DigitsValue(s) ==
    IF s = <<>> THEN 0
    ELSE 10 * DigitsValue(SubSeq(s, 1, Len(s) - 1)) + DigitValue(s[Len(s)])

\* str::parse::<usize>: an optional '+', then one or more decimal digits
\* (the strings of this model are far too short to overflow a usize)
ParseUsize(s) ==
    LET body == IF s # <<>> /\ s[1] = "+" THEN Tail(s) ELSE s
    IN  IF body # <<>> /\ \A i \in 1..Len(body) : IsDigit(body[i])
        THEN [ok |-> TRUE, value |-> DigitsValue(body)]
        ELSE [ok |-> FALSE]

\* the Display of a usize
RECURSIVE UsizeToString(_)
UsizeToString(n) ==
    IF n < 10 THEN <<Digits[n + 1]>>
    ELSE UsizeToString(n \div 10) \o <<Digits[(n % 10) + 1]>>

\* Option<T>
None == [none |-> TRUE]

Some(x) == [some |-> x]

----------------------------------------------------------------------------
(* Bounds and inputs                                                       *)

\* the most entries the notification lists hold together
MaxLen == 3

\* team_data::zulip_map: Zulip id -> GitHub id
ZulipMap == [z \in {1, 2} |-> 100 + z]

Owners == {ZulipMap[z] : z \in DOMAIN ZulipMap}

\* the Zulip ids that send messages; 3 is not in the team data
Senders == DOMAIN ZulipMap \cup {3}

Urls == {<<"u">>, <<"v">>}

\* the (url, description) pairs users add: one without, one with a description
AddArgs == {[url |-> <<"u">>, description |-> <<>>],
            [url |-> <<"v">>, description |-> <<"d">>]}

Metadatas == {<<>>, <<"m">>}

\* "0", "1", ..., up to one past the longest list
PositionStrings == {<<Digits[n + 1]>> : n \in 0..(MaxLen + 1)}

\* what users write where a position is expected
IndexArgs == PositionStrings \cup {<<"u">>}

\* parser::command::manage_notifs::NotifCommandKind
NotifCommands ==
    [kind : {"Acknowledge"}, idx : PositionStrings \cup Urls]
        \cup {[kind |-> "Add", url |-> a.url, description |-> a.description] : a \in AddArgs}
        \cup [kind : {"Move"}, from : IndexArgs, to : IndexArgs]
        \cup [kind : {"Meta"}, idx : IndexArgs, metadata : Metadatas]

\* the GitHub logins written after "as", with the GitHub id of each
GithubLogins == [login \in {"bob"} |-> 102]

\* NotifCommand::user_override
UserOverrides == {None} \cup {Some(login) : login \in DOMAIN GithubLogins}

\* parser::command::Command, as far as the two chat handlers tell it apart;
\* HandleNotifs(Ok(_)) carries a NotifCommand { command, user_override }
Commands ==
    {[family |-> "None"]}
        \cup [family : {"Relabel"}, ok : BOOLEAN]
        \cup [family : {"HandleNotifs"}, ok : {FALSE}]
        \cup [family : {"HandleNotifs"}, ok : {TRUE}, command : NotifCommands,
               user_override : UserOverrides]

Requests == [sender : Senders, cmd : Commands]

NoRequest == [sender |-> 0]

----------------------------------------------------------------------------
(* db::notifications: the per-owner ordered list                           *)

ListLen(list) == Cardinality(list)

TotalEntries(st) ==
    LET RECURSIVE Sum(_)
        Sum(os) == IF os = {} THEN 0
                   ELSE LET o == CHOOSE x \in os : TRUE
                        IN  ListLen(st[o]) + Sum(os \ {o})
    IN  Sum(DOMAIN st)

\* the entries of a set in the order of their idx
RECURSIVE ByIdx(_)
ByIdx(list) ==
    IF list = {} THEN <<>>
    ELSE LET first == CHOOSE e \in list : \A f \in list : e.idx <= f.idx
         IN  <<first>> \o ByIdx(list \ {first})

\* close the gaps: every entry gets the rank of its idx
Renumber(list) ==
    {[e EXCEPT !.idx = Cardinality({f \in list : f.idx <= e.idx})] : e \in list}

\* faulty variant: the new entry gets the 0-based position
RecordPingIdxZeroBased(list) == ListLen(list)

\* the new entry goes to position N + 1
RecordPingIdx(list) == ListLen(list) + 1

\* record_ping
RecordPing(list, url, description) ==
    [ok |-> TRUE,
     list |-> list \cup {[idx |-> RecordPingIdx(list), origin_url |-> url,
                          short_description |-> description, metadata |-> None]}]

\* delete_ping
DeletePing(list, ident) ==
    IF ident.kind = "Index"
    THEN IF ident.n \in 1..ListLen(list)
         THEN LET gone == {e \in list : e.idx = ident.n}
              IN  [ok |-> TRUE, list |-> Renumber(list \ gone), deleted |-> ByIdx(gone)]
         ELSE [ok |-> FALSE, list |-> list, error |-> "NotFound"]
    ELSE LET gone == {e \in list : e.origin_url = ident.url}
         IN  [ok |-> TRUE, list |-> Renumber(list \ gone), deleted |-> ByIdx(gone)]

\* move_indices, called with 0-based positions
MoveIndices(list, from, to) ==
    IF from >= ListLen(list) \/ to >= ListLen(list)
    THEN [ok |-> FALSE, list |-> list, error |-> "InvalidPosition"]
    ELSE LET NewIdx(i) ==
                 CASE i = from + 1 -> to + 1
                   [] from < to /\ from + 1 < i /\ i <= to + 1 -> i - 1
                   [] to < from /\ to + 1 <= i /\ i < from + 1 -> i + 1
                   [] OTHER -> i
         IN  [ok |-> TRUE, list |-> {[e EXCEPT !.idx = NewIdx(e.idx)] : e \in list}]

\* add_metadata, called with a 0-based position
AddMetadata(list, idx, metadata) ==
    IF idx >= ListLen(list)
    THEN [ok |-> FALSE, list |-> list, error |-> "InvalidPosition"]
    ELSE [ok |-> TRUE,
          list |-> {IF e.idx = idx + 1 THEN [e EXCEPT !.metadata = metadata] ELSE e : e \in list}]

----------------------------------------------------------------------------
(* handlers/manage_notifs.rs: the notification commands                    *)

NoDbCall == [op |-> "none"]

MakeClientFailed == [op |-> "make_client", ok |-> FALSE]

\* anyhow::Result<String> of a command function
OutOk(reply) == [kind |-> "Ok", reply |-> reply]

OutErr(error) == [kind |-> "Err", error |-> error]

NoOut == [kind |-> "None"]

\* faulty variant: the position is made 0-based, as move and meta do
IdentifierZeroBased(idx) ==
    LET number == ParseUsize(idx)
    IN  IF number.ok
        THEN IF number.value = 0
             THEN [kind |-> "Err", error |-> "index must be at least 1"]
             ELSE [kind |-> "Index", n |-> number.value - 1]
        ELSE [kind |-> "Url", url |-> idx]

\* faulty variant: every argument is taken for a URL
IdentifierAlwaysUrl(idx) == [kind |-> "Url", url |-> idx]

\* acknowledge: the Identifier made of the argument
Identifier(idx) ==
    LET number == ParseUsize(idx)
    IN  IF number.ok
        THEN IF number.value = 0
             THEN [kind |-> "Err", error |-> "index must be at least 1"]
             ELSE [kind |-> "Index", n |-> number.value]
        ELSE [kind |-> "Url", url |-> idx]

\* one line of the "Acknowledged:" reply
AcknowledgedLine(deleted) ==
    <<" * [">>
        \o (IF deleted.short_description = None THEN deleted.origin_url
            ELSE deleted.short_description.some)
        \o <<"](">> \o deleted.origin_url \o <<")">>
        \o (IF deleted.metadata = None THEN <<>>
            ELSE <<" (">> \o deleted.metadata.some \o <<")">>)
        \o <<"\n">>

RECURSIVE AcknowledgedLines(_)
AcknowledgedLines(deleted) ==
    IF deleted = <<>> THEN <<>>
    ELSE AcknowledgedLine(Head(deleted)) \o AcknowledgedLines(Tail(deleted))

\* acknowledge
Acknowledge(list, idx, db_up) ==
    LET ident == Identifier(idx)
    IN  IF ident.kind = "Err"
        THEN [list |-> list, db |-> NoDbCall, out |-> OutErr(ident.error)]
        ELSE IF ~db_up
        THEN [list |-> list, db |-> MakeClientFailed, out |-> OutErr("make_client")]
        ELSE LET r == DeletePing(list, ident)
             IN  [list |-> r.list,
                  db |-> [op |-> "delete_ping", ident |-> ident,
                          result |-> [x \in DOMAIN r \ {"list"} |-> r[x]]],
                  out |-> IF r.ok
                          THEN OutOk(<<"Acknowledged:\n">> \o AcknowledgedLines(r.deleted))
                          ELSE OutOk(<<"Failed to acknowledge ">> \o idx \o <<": ", r.error, ".">>)]

\* faulty variant: the description is stored as given, empty or not
ShortDescriptionKeepsEmpty(description) == Some(description)

\* add_notification: an empty description is no description
ShortDescription(description) ==
    IF description = <<>> THEN None ELSE Some(description)

\* add_notification
AddNotification(list, url, description, db_up) ==
    IF ~db_up
    THEN [list |-> list,
          db |-> [op |-> "record_ping", url |-> url,
                  short_description |-> ShortDescription(description),
                  result |-> [ok |-> FALSE, error |-> "Io"]],
          out |-> OutOk(<<"Failed to create: ", "Io">>)]
    ELSE LET r == RecordPing(list, url, ShortDescription(description))
         IN  [list |-> r.list,
              db |-> [op |-> "record_ping", url |-> url,
                      short_description |-> ShortDescription(description),
                      result |-> [ok |-> TRUE]],
              out |-> OutOk(<<"Created!">>)]

\* faulty variant: the position is passed on as written, 1-based
ZeroBasedNoShift(arg, context) ==
    LET number == ParseUsize(arg)
    IN  IF ~number.ok THEN [ok |-> FALSE, error |-> context]
        ELSE IF number.value = 0 THEN [ok |-> FALSE, error |-> "1-based indexes"]
        ELSE [ok |-> TRUE, value |-> number.value]

\* faulty variant: saturating_sub(1) in place of checked_sub(1)
ZeroBasedSaturating(arg, context) ==
    LET number == ParseUsize(arg)
    IN  IF ~number.ok THEN [ok |-> FALSE, error |-> context]
        ELSE [ok |-> TRUE, value |-> IF number.value = 0 THEN 0 ELSE number.value - 1]

\* .parse::<usize>().context(..)?.checked_sub(1).ok_or_else(..)?
ZeroBased(arg, context) ==
    LET number == ParseUsize(arg)
    IN  IF ~number.ok THEN [ok |-> FALSE, error |-> context]
        ELSE IF number.value = 0 THEN [ok |-> FALSE, error |-> "1-based indexes"]
        ELSE [ok |-> TRUE, value |-> number.value - 1]

\* faulty variant: an empty description is stored as empty metadata
MetadataOfKeepsEmpty(description) == Some(description)

\* add_meta_notification: an empty description is no metadata
MetadataOf(description) ==
    IF description = <<>> THEN None ELSE Some(description)

\* add_meta_notification
AddMetaNotification(list, idx_arg, metadata, db_up) ==
    LET idx == ZeroBased(idx_arg, "index")
    IN  IF ~idx.ok
        THEN [list |-> list, db |-> NoDbCall, out |-> OutErr(idx.error)]
        ELSE IF ~db_up
        THEN [list |-> list, db |-> MakeClientFailed, out |-> OutErr("make_client")]
        ELSE LET r == AddMetadata(list, idx.value, MetadataOf(metadata))
             IN  [list |-> r.list,
                  db |-> [op |-> "add_metadata", idx |-> idx.value,
                          metadata |-> MetadataOf(metadata),
                          result |-> [x \in DOMAIN r \ {"list"} |-> r[x]]],
                  out |-> IF r.ok THEN OutOk(<<"Added metadata!">>)
                          ELSE OutOk(<<"Failed to add: ", r.error>>)]

\* move_notification
MoveNotification(list, from_arg, to_arg, db_up) ==
    LET from == ZeroBased(from_arg, "from index")
        to == ZeroBased(to_arg, "to index")
    IN  IF ~from.ok
        THEN [list |-> list, db |-> NoDbCall, out |-> OutErr(from.error)]
        ELSE IF ~to.ok
        THEN [list |-> list, db |-> NoDbCall, out |-> OutErr(to.error)]
        ELSE IF ~db_up
        THEN [list |-> list, db |-> MakeClientFailed, out |-> OutErr("make_client")]
        ELSE LET r == MoveIndices(list, from.value, to.value)
             IN  [list |-> r.list,
                  db |-> [op |-> "move_indices", from |-> from.value, to |-> to.value,
                          result |-> [x \in DOMAIN r \ {"list"} |-> r[x]]],
                  out |-> IF r.ok
                          THEN OutOk(<<"Moved ">> \o UsizeToString(from.value + 1) \o <<" to ">>
                                     \o UsizeToString(to.value + 1) \o <<".">>)
                          ELSE OutOk(<<"Failed to move: ", r.error, ".">>)]

\* handle_input: match input.command { .. }
RunCommand(list, command, db_up) ==
    CASE command.kind = "Acknowledge" -> Acknowledge(list, command.idx, db_up)
      [] command.kind = "Add" ->
            AddNotification(list, command.url, command.description, db_up)
      [] command.kind = "Move" -> MoveNotification(list, command.from, command.to, db_up)
      [] command.kind = "Meta" ->
            AddMetaNotification(list, command.idx, command.metadata, db_up)

\* faulty variant: every known sender resolves to the same GitHub id
ToGithubIdFirstKnown(sender) ==
    IF sender \in DOMAIN ZulipMap THEN Some(ZulipMap[1]) ELSE None

\* zulip::to_github_id, when the team API answers
ToGithubId(sender) ==
    IF sender \in DOMAIN ZulipMap THEN Some(ZulipMap[sender]) ELSE None

----------------------------------------------------------------------------
(* zulip::respond and handle_zulip                                         *)

\* the relabel handler's ZulipHandler::parse_input, on what the data parses to
RelabelParseInput(cmd) ==
    CASE cmd.family = "Relabel" /\ cmd.ok -> "Some"
      [] cmd.family = "Relabel" /\ ~cmd.ok -> "Err"
      [] OTHER -> "None"

\* NotificationHandler's ZulipHandler::parse_input
NotifsParseInput(cmd) ==
    CASE cmd.family = "HandleNotifs" /\ cmd.ok -> "Some"
      [] cmd.family = "HandleNotifs" /\ ~cmd.ok -> "Err"
      [] OTHER -> "None"

ZulipParseCall(name, outcome) == [name |-> name, outcome |-> outcome]

\* format!("Parsing label command failed: {}", err)
ZulipParseErrorText == <<"Parsing label command failed: ", "err">>

\* impl fmt::Display for HandlerError
Display(result) ==
    CASE result.kind = "Message" -> result.text
      [] result.kind = "Other" -> <<"An internal error occurred.">>

\* faulty variant: the reply for an internal error carries the error
ResponseContentLeaks(result) ==
    CASE result.kind = "Message" -> result.text
      [] result.kind = "Other" -> <<"handling failed: ", result.error>>
      [] OTHER -> <<>>

\* respond: the content of the Response for what handle_zulip returned
ResponseContent(result) ==
    CASE result.kind = "Message" -> result.text
      [] result.kind = "Other" -> <<"handling failed, error logged">>
      [] OTHER -> <<>>

\* handle_zulip returns `result`; respond answers with its content
ZulipReturn(result) ==
    /\ z_pc' = "returned"
    /\ z_result' = result
    /\ z_response' = ResponseContent(result)

\* a message arrives with the expected token
ZulipReceive ==
    /\ channel = "zulip"
    /\ z_pc = "idle"
    /\ \E req \in Requests : z_req' = req
    /\ z_pc' = "relabel"
    /\ UNCHANGED <<z_parsed, z_executed, z_replies, z_before, z_db, z_out, z_result, z_response>>
    /\ UNCHANGED <<channel, r_vars, p_vars, t_vars, store, gh_vars>>

\* a message arrives with another token: respond answers at once
ZulipInvalidToken ==
    /\ channel = "zulip"
    /\ z_pc = "idle"
    /\ z_pc' = "returned"
    /\ z_response' = <<"Invalid authorization.">>
    /\ UNCHANGED <<z_req, z_parsed, z_executed, z_replies, z_before, z_db, z_out, z_result>>
    /\ UNCHANGED <<channel, r_vars, p_vars, t_vars, store, gh_vars>>

\* relabel: parse_input returned Ok(None)
ZulipRelabelParseNone ==
    /\ z_pc = "relabel"
    /\ RelabelParseInput(z_req.cmd) = "None"
    /\ z_parsed' = Append(z_parsed, ZulipParseCall("relabel", RelabelParseInput(z_req.cmd)))
    /\ z_pc' = "manage_notifs"
    /\ UNCHANGED <<z_req, z_executed, z_replies, z_before, z_db, z_out, z_result, z_response>>
    /\ UNCHANGED <<channel, r_vars, p_vars, t_vars, store, gh_vars>>

\* relabel: parse_input returned Err(msg)
ZulipRelabelParseError ==
    /\ z_pc = "relabel"
    /\ RelabelParseInput(z_req.cmd) = "Err"
    /\ z_parsed' = Append(z_parsed, ZulipParseCall("relabel", RelabelParseInput(z_req.cmd)))
    /\ ZulipReturn(ParseFailure(ZulipParseErrorText))
    /\ UNCHANGED <<z_req, z_executed, z_replies, z_before, z_db, z_out>>
    /\ UNCHANGED <<channel, r_vars, p_vars, t_vars, store, gh_vars>>

\* faulty variant: handle_zulip returns after the first handler that executed
AfterRelabelOkReturns == "returned"

\* the position handle_zulip reaches when handle_input of relabel returned Ok(())
AfterRelabelOk == "manage_notifs"

\* relabel: parse_input returned Ok(Some(input)), handle_input returned Ok(())
ZulipRelabelExecuteOk ==
    /\ z_pc = "relabel"
    /\ RelabelParseInput(z_req.cmd) = "Some"
    /\ z_parsed' = Append(z_parsed, ZulipParseCall("relabel", RelabelParseInput(z_req.cmd)))
    /\ z_executed' = Append(z_executed, "relabel")
    /\ IF AfterRelabelOk = "returned"
       THEN ZulipReturn(OkResult)
       ELSE z_pc' = AfterRelabelOk /\ UNCHANGED <<z_result, z_response>>
    /\ UNCHANGED <<z_req, z_replies, z_before, z_db, z_out>>
    /\ UNCHANGED <<channel, r_vars, p_vars, t_vars, store, gh_vars>>

\* relabel: parse_input returned Ok(Some(input)), handle_input returned Err(e)
ZulipRelabelExecuteError ==
    /\ z_pc = "relabel"
    /\ RelabelParseInput(z_req.cmd) = "Some"
    /\ z_parsed' = Append(z_parsed, ZulipParseCall("relabel", RelabelParseInput(z_req.cmd)))
    /\ z_executed' = Append(z_executed, "relabel")
    /\ ZulipReturn(HandlerErrorOther(ExecuteError("relabel")))
    /\ UNCHANGED <<z_req, z_replies, z_before, z_db, z_out>>
    /\ UNCHANGED <<channel, r_vars, p_vars, t_vars, store, gh_vars>>

\* manage_notifs: parse_input returned Ok(None); handle_zulip returns Ok(())
ZulipNotifsParseNone ==
    /\ z_pc = "manage_notifs"
    /\ NotifsParseInput(z_req.cmd) = "None"
    /\ z_parsed' = Append(z_parsed, ZulipParseCall("manage_notifs", NotifsParseInput(z_req.cmd)))
    /\ ZulipReturn(OkResult)
    /\ UNCHANGED <<z_req, z_executed, z_replies, z_before, z_db, z_out>>
    /\ UNCHANGED <<channel, r_vars, p_vars, t_vars, store, gh_vars>>

\* manage_notifs: parse_input returned Err(msg)
ZulipNotifsParseError ==
    /\ z_pc = "manage_notifs"
    /\ NotifsParseInput(z_req.cmd) = "Err"
    /\ z_parsed' = Append(z_parsed, ZulipParseCall("manage_notifs", NotifsParseInput(z_req.cmd)))
    /\ ZulipReturn(ParseFailure(ZulipParseErrorText))
    /\ UNCHANGED <<z_req, z_executed, z_replies, z_before, z_db, z_out>>
    /\ UNCHANGED <<channel, r_vars, p_vars, t_vars, store, gh_vars>>

\* manage_notifs: handle_input, the sender is not in the team data
ZulipNotifsUnknownUser ==
    /\ z_pc = "manage_notifs"
    /\ NotifsParseInput(z_req.cmd) = "Some"
    /\ ToGithubId(z_req.sender) = None
    /\ z_parsed' = Append(z_parsed, ZulipParseCall("manage_notifs", NotifsParseInput(z_req.cmd)))
    /\ z_executed' = Append(z_executed, "manage_notifs")
    /\ z_replies' = Append(z_replies,
            <<"Unknown Zulip user. Please add 'zulip-id = ">>
                \o UsizeToString(z_req.sender) \o <<"' to your file in rust-lang/team.">>)
    /\ z_before' = store
    /\ ZulipReturn(OkResult)
    /\ UNCHANGED <<z_req, z_db, z_out>>
    /\ UNCHANGED <<channel, r_vars, p_vars, t_vars, store, gh_vars>>

\* manage_notifs: handle_input, the team API failed
ZulipNotifsTeamApiError ==
    /\ z_pc = "manage_notifs"
    /\ NotifsParseInput(z_req.cmd) = "Some"
    /\ z_parsed' = Append(z_parsed, ZulipParseCall("manage_notifs", NotifsParseInput(z_req.cmd)))
    /\ z_executed' = Append(z_executed, "manage_notifs")
    /\ z_replies' = Append(z_replies, <<"Failed to query team API: ", "e">>)
    /\ z_before' = store
    /\ ZulipReturn(OkResult)
    /\ UNCHANGED <<z_req, z_db, z_out>>
    /\ UNCHANGED <<channel, r_vars, p_vars, t_vars, store, gh_vars>>

\* handle_zulip's result for what handle_input returned
ZulipExecuteResult(out) ==
    IF out.kind = "Err" THEN HandlerErrorOther(out.error) ELSE OkResult

\* manage_notifs: handle_input runs the command on the sender's list
ZulipNotifsCommand ==
    /\ z_pc = "manage_notifs"
    /\ NotifsParseInput(z_req.cmd) = "Some"
    /\ ToGithubId(z_req.sender) # None
    /\ \E db_up \in BOOLEAN :
        LET gh_id == ToGithubId(z_req.sender).some
            r == RunCommand(store[gh_id], z_req.cmd.command, db_up)
        IN  /\ TotalEntries([store EXCEPT ![gh_id] = r.list]) <= MaxLen
            /\ store' = [store EXCEPT ![gh_id] = r.list]
            /\ z_db' = r.db
            /\ z_out' = r.out
            /\ ZulipReturn(ZulipExecuteResult(r.out))
    /\ z_parsed' = Append(z_parsed, ZulipParseCall("manage_notifs", NotifsParseInput(z_req.cmd)))
    /\ z_executed' = Append(z_executed, "manage_notifs")
    /\ z_before' = store
    /\ UNCHANGED <<z_req, z_replies>>
    /\ UNCHANGED <<channel, r_vars, p_vars, t_vars, gh_vars>>

\* the caller has taken the response; the next message can be handled
ZulipReturned ==
    /\ z_pc = "returned"
    /\ z_pc' = "idle"
    /\ z_req' = NoRequest
    /\ z_parsed' = <<>>
    /\ z_executed' = <<>>
    /\ z_replies' = <<>>
    /\ z_before' = store
    /\ z_db' = NoDbCall
    /\ z_out' = NoOut
    /\ z_result' = NoResult
    /\ z_response' = <<>>
    /\ UNCHANGED <<channel, r_vars, p_vars, t_vars, store, gh_vars>>

ZulipInit ==
    /\ store = [o \in Owners |-> {}]
    /\ z_pc = "idle"
    /\ z_req = NoRequest
    /\ z_parsed = <<>>
    /\ z_executed = <<>>
    /\ z_replies = <<>>
    /\ z_before = [o \in Owners |-> {}]
    /\ z_db = NoDbCall
    /\ z_out = NoOut
    /\ z_result = NoResult
    /\ z_response = <<>>

ZulipNext ==
    \/ ZulipReceive
    \/ ZulipInvalidToken
    \/ ZulipRelabelParseNone
    \/ ZulipRelabelParseError
    \/ ZulipRelabelExecuteOk
    \/ ZulipRelabelExecuteError
    \/ ZulipNotifsParseNone
    \/ ZulipNotifsParseError
    \/ ZulipNotifsUnknownUser
    \/ ZulipNotifsTeamApiError
    \/ ZulipNotifsCommand
    \/ ZulipReturned

----------------------------------------------------------------------------
(* parser: the tokens and NotifCommand::parse                              *)
(* (parser/src/command/manage_notifs.rs; the texts of tokens are           *)
(* sequences of characters)                                                *)

\* the most tokens left in the input when parse is called
MaxTokens == 4

\* Token::Word, Token::Quote
Word(text) == [type |-> "Word", text |-> text]

Quote(text) == [type |-> "Quote", text |-> text]

As == <<"a", "s">>

Ack == <<"a", "c", "k">>

AcknowledgeWord == <<"a", "c", "k", "n", "o", "w", "l", "e", "d", "g", "e">>

Add == <<"a", "d", "d">>

Move == <<"m", "o", "v", "e">>

Meta == <<"m", "e", "t", "a">>

\* the words parse matches after the optional prefix
Keywords == {Ack, AcknowledgeWord, Add, Move, Meta}

\* what the tokenizer finds next in a message: a token, or a quote that is
\* never closed (the lex error of next_token and peek_token)
Tokens ==
    {Word(w) : w \in Keywords \cup {As, <<"1">>, <<"x">>}}
        \cup {Quote(<<"u">>)}
        \cup {[type |-> "Semi"], [type |-> "Dot"], [type |-> "EndOfLine"]}
        \cup {[type |-> "Unterminated"]}

RECURSIVE SeqsUpTo(_, _)
SeqsUpTo(S, n) ==
    IF n = 0 THEN {<<>>}
    ELSE LET shorter == SeqsUpTo(S, n - 1)
         IN  shorter \cup {Append(q, x) : q \in shorter, x \in S}

\* the cursors parse is called with
Inputs == SeqsUpTo(Tokens, MaxTokens)

\* Result<Option<Token>, Error>
TokenOk(token) == [kind |-> "Ok", token |-> token]

TokenErr == [kind |-> "Err"]

\* Tokenizer::peek_token: the next token, nothing consumed
PeekToken(toks) ==
    IF toks = <<>> THEN TokenOk(None)
    ELSE IF Head(toks).type = "Unterminated" THEN TokenErr
    ELSE TokenOk(Some(Head(toks)))

\* Tokenizer::next_token: the next token and the cursor past it
NextToken(toks) ==
    [result |-> PeekToken(toks),
     toks |-> IF PeekToken(toks).kind = "Err" \/ toks = <<>> THEN toks ELSE Tail(toks)]

IsWord(r) == r.kind = "Ok" /\ r.token # None /\ r.token.some.type = "Word"

IsQuote(r) == r.kind = "Ok" /\ r.token # None /\ r.token.some.type = "Quote"

IsTerminator(r) ==
    r.kind = "Ok" /\ r.token # None /\ r.token.some.type \in {"Semi", "Dot", "EndOfLine"}

\* the Display of a token that can be part of a description
TokenToString(token) ==
    IF token.type = "Quote" THEN <<"\"">> \o token.text \o <<"\"">> ELSE token.text

\* String::pop
Pop(string) == IF string = <<>> THEN string ELSE SubSeq(string, 1, Len(string) - 1)

\* Result<Option<NotifCommand>, Error>
ParseErr == [kind |-> "Err"]

ParseNone == [kind |-> "None"]

ParseSome(command, user_override) ==
    [kind |-> "Some", command |-> command, user_override |-> user_override]

\* a step of parse that returns from the function
Returns(result, toks) == [returns |-> TRUE, result |-> result, toks |-> toks]

\* a step of parse that goes on with a value
GoesOn(value, toks) == [returns |-> FALSE, value |-> value, toks |-> toks]

\* faulty variant: `as` without a name after it is an error
ParsePrefixCommitted(toks) ==
    LET peeked == PeekToken(toks)
    IN  IF peeked.kind = "Err" THEN Returns(ParseErr, toks)
        ELSE IF IsWord(peeked) /\ peeked.token.some.text = As
        THEN LET user == NextToken(NextToken(toks).toks)
             IN  IF IsWord(user.result)
                 THEN GoesOn(Some(user.result.token.some.text), user.toks)
                 ELSE Returns(ParseErr, user.toks)
        ELSE GoesOn(None, toks)

\* the optional prefix `as <user>`: user_override
ParsePrefix(toks) ==
    LET peeked == PeekToken(toks)
    IN  IF peeked.kind = "Err" THEN Returns(ParseErr, toks)
        ELSE IF IsWord(peeked) /\ peeked.token.some.text = As
        THEN LET user == NextToken(NextToken(toks).toks)
             IN  IF user.result.kind = "Err" THEN Returns(ParseErr, user.toks)
                 ELSE IF IsWord(user.result)
                 THEN GoesOn(Some(user.result.token.some.text), user.toks)
                 ELSE Returns(ParseNone, user.toks)
        ELSE GoesOn(None, toks)

\* match toks.next_token()? { Some(Word(idx)) => idx, Some(Quote(url)) => url,
\*                            _ => return Ok(None) }
WordOrQuote(toks) ==
    LET next == NextToken(toks)
    IN  IF next.result.kind = "Err" THEN Returns(ParseErr, next.toks)
        ELSE IF IsWord(next.result) \/ IsQuote(next.result)
        THEN GoesOn(next.result.token.some.text, next.toks)
        ELSE Returns(ParseNone, next.toks)

\* if let Some(Token::Quote(url)) = toks.next_token()? { url } else { return Ok(None) }
QuoteOnly(toks) ==
    LET next == NextToken(toks)
    IN  IF next.result.kind = "Err" THEN Returns(ParseErr, next.toks)
        ELSE IF IsQuote(next.result) THEN GoesOn(next.result.token.some.text, next.toks)
        ELSE Returns(ParseNone, next.toks)

\* if let Some(Token::Word(idx)) = toks.next_token()? { idx } else { return Ok(None) }
WordOnly(toks) ==
    LET next == NextToken(toks)
    IN  IF next.result.kind = "Err" THEN Returns(ParseErr, next.toks)
        ELSE IF IsWord(next.result) THEN GoesOn(next.result.token.some.text, next.toks)
        ELSE Returns(ParseNone, next.toks)

\* the loop that collects a description up to a terminator or the end
RECURSIVE DescriptionLoop(_, _)
DescriptionLoop(toks, description) ==
    LET peeked == PeekToken(toks)
    IN  IF peeked.kind = "Err" THEN Returns(ParseErr, toks)
        ELSE IF IsTerminator(peeked) \/ peeked.token = None
        THEN GoesOn(Pop(description), toks)
        ELSE DescriptionLoop(NextToken(toks).toks,
                             description \o TokenToString(peeked.token.some) \o <<" ">>)

\* the arm "acknowledge" | "ack"
AcknowledgeArm(toks) ==
    LET idx == WordOrQuote(toks)
    IN  IF idx.returns THEN idx
        ELSE GoesOn([kind |-> "Acknowledge", idx |-> idx.value], idx.toks)

\* the arm "add"
AddArm(toks) ==
    LET url == QuoteOnly(toks)
    IN  IF url.returns THEN url
        ELSE LET description == DescriptionLoop(url.toks, <<>>)
             IN  IF description.returns THEN description
                 ELSE GoesOn([kind |-> "Add", url |-> url.value,
                              description |-> description.value], description.toks)

\* the arm "move"
MoveArm(toks) ==
    LET from == WordOrQuote(toks)
    IN  IF from.returns THEN from
        ELSE LET to == WordOrQuote(from.toks)
             IN  IF to.returns THEN to
                 ELSE GoesOn([kind |-> "Move", from |-> from.value, to |-> to.value],
                             to.toks)

\* the arm "meta", which builds NotifCommandKind::Add
MetaArm(toks) ==
    LET idx == WordOnly(toks)
    IN  IF idx.returns THEN idx
        ELSE LET description == DescriptionLoop(idx.toks, <<>>)
             IN  IF description.returns THEN description
                 ELSE GoesOn([kind |-> "Add", url |-> idx.value,
                              description |-> description.value], description.toks)

\* let command = if let Some(Token::Word(cmd)) = toks.peek_token()? { match cmd { .. } }
\* the keyword is peeked, never consumed: each arm starts at the keyword
ParseCommandKind(toks) ==
    LET peeked == PeekToken(toks)
    IN  IF peeked.kind = "Err" THEN Returns(ParseErr, toks)
        ELSE IF IsWord(peeked)
        THEN LET cmd == peeked.token.some.text
             IN  CASE cmd \in {AcknowledgeWord, Ack} -> AcknowledgeArm(toks)
                   [] cmd = Add -> AddArm(toks)
                   [] cmd = Move -> MoveArm(toks)
                   [] cmd = Meta -> MetaArm(toks)
                   [] OTHER -> Returns(ParseNone, toks)
        ELSE Returns(ParseNone, toks)

\* NotifCommand::parse on the cursor `toks`: what it returns and where
\* `toks` is then
ParseToks(toks) ==
    LET prefix == ParsePrefix(toks)
    IN  IF prefix.returns THEN prefix
        ELSE LET command == ParseCommandKind(prefix.toks)
             IN  IF command.returns THEN command
                 ELSE Returns(ParseSome(command.value, prefix.value), command.toks)

\* faulty variant: a successful parse leaves the caller's cursor after the
\* command
CallerCursorCommitted(input, toks) ==
    IF ParseToks(input).result.kind = "Some" THEN toks ELSE input

\* faulty variant: parse reads from the caller's cursor itself
CallerCursorShared(input, toks) == toks

\* let mut toks = input.clone(): `input` is not read from again
CallerCursor(input, toks) == input

\* a caller calls NotifCommand::parse(&mut input)
NotifCommandParse ==
    /\ channel = "parser"
    /\ p_pc = "idle"
    /\ \E input \in Inputs :
        /\ p_input' = input
        /\ p_result' = ParseToks(input).result
        /\ p_toks' = ParseToks(input).toks
        /\ p_cursor' = CallerCursor(input, ParseToks(input).toks)
    /\ p_pc' = "parsed"
    /\ UNCHANGED <<channel, r_vars, t_vars, store, gh_vars, z_vars>>

\* the caller has taken the result
ParseReturned ==
    /\ p_pc = "parsed"
    /\ p_pc' = "idle"
    /\ p_input' = <<>>
    /\ p_result' = ParseNone
    /\ p_toks' = <<>>
    /\ p_cursor' = <<>>
    /\ UNCHANGED <<channel, r_vars, t_vars, store, gh_vars, z_vars>>

ParseInit ==
    /\ p_pc = "idle"
    /\ p_input = <<>>
    /\ p_result = ParseNone
    /\ p_toks = <<>>
    /\ p_cursor = <<>>

ParseNext == NotifCommandParse \/ ParseReturned

----------------------------------------------------------------------------
(* concurrent chat messages                                                *)

\* the chat messages handled at the same time, each by its own call of
\* respond
Tasks == {1, 2}

\* the commands of concurrent messages: moves from either end of a list of
\* three (one of them to where the entry is), the two Adds, an Acknowledge
ConcurrentCommands ==
    [kind : {"Move"}, from : {<<"1">>, <<"3">>}, to : {<<"2">>, <<"3">>}]
        \cup {[kind |-> "Add", url |-> a.url, description |-> a.description] : a \in AddArgs}
        \cup {[kind |-> "Acknowledge", idx |-> <<"1">>]}

\* concurrent messages: any command from a known sender, and one message
\* from a sender that is not in the team data
ConcurrentRequests ==
    [sender : DOMAIN ZulipMap, command : ConcurrentCommands]
        \cup {[sender |-> s, command |-> [kind |-> "Acknowledge", idx |-> <<"1">>]] :
                s \in Senders \ DOMAIN ZulipMap}

IdleTask == [pc |-> "idle"]

\* faulty variant: the operation works on the list as it was when the first
\* of the concurrent messages arrived
ListAtFirstArrival(gh_id) == t_start[gh_id]

\* the list a db::notifications operation works on: the owner's list as it
\* is when the operation is called, read and written in one step
ListAtCall(gh_id) == store[gh_id]

\* a message with a notification command arrives while others may be in
\* flight; handle_zulip has reached handle_input of manage_notifs
TaskReceive(t) ==
    /\ channel = "concurrent"
    /\ t_task[t].pc = "idle"
    /\ \E req \in ConcurrentRequests :
        t_task' = [t_task EXCEPT ![t] = [pc |-> "handle_input", req |-> req]]
    /\ IF \A u \in Tasks : t_task[u].pc = "idle"
       THEN t_start' = store /\ t_order' = <<>>
       ELSE UNCHANGED <<t_start, t_order>>
    /\ UNCHANGED <<channel, r_vars, p_vars, store, gh_vars, z_vars>>

\* handle_input: zulip::to_github_id(..).await found the sender
TaskResolved(t) ==
    /\ t_task[t].pc = "handle_input"
    /\ ToGithubId(t_task[t].req.sender) # None
    /\ t_task' = [t_task EXCEPT ![t] =
                    [pc |-> "resolved", req |-> t_task[t].req,
                     gh_id |-> ToGithubId(t_task[t].req.sender).some]]
    /\ UNCHANGED <<channel, r_vars, p_vars, t_start, t_order, store, gh_vars, z_vars>>

\* handle_input: the sender is unknown or the team API failed; a reply is
\* sent and no command runs
TaskNotResolved(t) ==
    /\ t_task[t].pc = "handle_input"
    /\ t_task' = [t_task EXCEPT ![t] =
                    [pc |-> "done", req |-> t_task[t].req, called |-> FALSE]]
    /\ UNCHANGED <<channel, r_vars, p_vars, t_start, t_order, store, gh_vars, z_vars>>

\* handle_input: the command runs; its db::notifications call is one step
TaskCommand(t) ==
    /\ t_task[t].pc = "resolved"
    /\ \E db_up \in BOOLEAN :
        LET gh_id == t_task[t].gh_id
            r == RunCommand(ListAtCall(gh_id), t_task[t].req.command, db_up)
        IN  /\ TotalEntries([store EXCEPT ![gh_id] = r.list]) <= MaxLen
            /\ store' = [store EXCEPT ![gh_id] = r.list]
            /\ t_task' = [t_task EXCEPT ![t] =
                            [pc |-> "done", req |-> t_task[t].req, called |-> TRUE,
                             gh_id |-> gh_id, db_up |-> db_up, db |-> r.db, out |-> r.out]]
    /\ t_order' = Append(t_order, t)
    /\ UNCHANGED <<channel, r_vars, p_vars, t_start, gh_vars, z_vars>>

\* every message in flight has been answered
TasksReturned ==
    /\ \A t \in Tasks : t_task[t].pc \in {"idle", "done"}
    /\ \E t \in Tasks : t_task[t].pc = "done"
    /\ t_task' = [t \in Tasks |-> IdleTask]
    /\ t_start' = store
    /\ t_order' = <<>>
    /\ UNCHANGED <<channel, r_vars, p_vars, store, gh_vars, z_vars>>

TasksInit ==
    /\ t_task = [t \in Tasks |-> IdleTask]
    /\ t_start = [o \in Owners |-> {}]
    /\ t_order = <<>>

TasksNext ==
    \/ \E t \in Tasks : TaskReceive(t)
    \/ \E t \in Tasks : TaskResolved(t)
    \/ \E t \in Tasks : TaskNotResolved(t)
    \/ \E t \in Tasks : TaskCommand(t)
    \/ TasksReturned

----------------------------------------------------------------------------
(* a chat message from its tokens to the reply: ZulipHandler::parse_input  *)
(* of manage_notifs on the tokens of the message, then handle_input        *)

Zero == <<"0">>

One == <<"1">>

Two == <<"2">>

\* the tokens of the chat messages sent
MessageInputs ==
    { <<Word(AcknowledgeWord), Word(Zero)>>,
      <<Word(Ack), Word(Zero)>>,
      <<Word(Ack), Word(One)>>,
      <<Word(Ack), Quote(Meta)>>,
      <<Word(Move), Word(Zero), Word(One)>>,
      <<Word(Move), Word(One), Word(Zero)>>,
      <<Word(Move), Word(One), Word(Two)>>,
      <<Word(Meta), Word(One), Word(<<"x">>)>>,
      <<Word(Meta), Word(One)>>,
      <<Word(Add), Quote(<<"u">>), Word(<<"x">>)>>,
      <<Word(<<"x">>)>>,
      <<[type |-> "Unterminated"]>> }

\* Input::parse_zulip_command on a message of the notification family, or
\* of no family: the Command of what NotifCommand::parse returned
ParseZulipCommand(toks) ==
    LET parsed == ParseToks(toks).result
    IN  CASE parsed.kind = "Some" ->
                [family |-> "HandleNotifs", ok |-> TRUE,
                 command |-> parsed.command, user_override |-> parsed.user_override]
          [] parsed.kind = "Err" -> [family |-> "HandleNotifs", ok |-> FALSE]
          [] OTHER -> [family |-> "None"]

\* a message arrives with the expected token; parse_input of each handler
\* will see the Command of its tokens
MessageReceive ==
    /\ channel = "message"
    /\ z_pc = "idle"
    /\ \E sender \in Senders, input \in MessageInputs :
        /\ z_req' = [sender |-> sender, cmd |-> ParseZulipCommand(input)]
        /\ p_input' = input
        /\ p_result' = ParseToks(input).result
        /\ p_toks' = ParseToks(input).toks
        /\ p_cursor' = CallerCursor(input, ParseToks(input).toks)
    /\ p_pc' = "parsed"
    /\ z_pc' = "relabel"
    /\ UNCHANGED <<z_parsed, z_executed, z_replies, z_before, z_db, z_out, z_result, z_response>>
    /\ UNCHANGED <<channel, r_vars, t_vars, store, gh_vars>>

\* the caller has taken the response; the next message can be handled
MessageReturned ==
    /\ channel = "message"
    /\ z_pc = "returned"
    /\ z_pc' = "idle"
    /\ z_req' = NoRequest
    /\ z_parsed' = <<>>
    /\ z_executed' = <<>>
    /\ z_replies' = <<>>
    /\ z_before' = store
    /\ z_db' = NoDbCall
    /\ z_out' = NoOut
    /\ z_result' = NoResult
    /\ z_response' = <<>>
    /\ p_pc' = "idle"
    /\ p_input' = <<>>
    /\ p_result' = ParseNone
    /\ p_toks' = <<>>
    /\ p_cursor' = <<>>
    /\ UNCHANGED <<channel, r_vars, t_vars, store, gh_vars>>

MessageNext ==
    \/ MessageReceive
    \/ ZulipRelabelParseNone
    \/ ZulipNotifsParseNone
    \/ ZulipNotifsParseError
    \/ ZulipNotifsUnknownUser
    \/ ZulipNotifsTeamApiError
    \/ ZulipNotifsCommand
    \/ MessageReturned

----------------------------------------------------------------------------
(* handlers/relabel.rs: the label filter and the relabel command from chat *)
(* (names of labels and patterns are sequences of characters)              *)

\* the most patterns in allow_unauthenticated
MaxPatterns == 3

\* the most label deltas in a RelabelCommand
MaxDeltas == 2

\* TeamMembership
Memberships == {"Member", "Outsider", "Unknown"}

TRelease == <<"T", "-", "r", "e", "l", "e", "a", "s", "e">>

ISlow == <<"I", "-", "s", "l", "o", "w">>

INominated == <<"I", "-", "n", "o", "m", "i", "n", "a", "t", "e", "d">>

ASpurious == <<"A", "-", "s", "p", "u", "r", "i", "o", "u", "s">>

TInfra == <<"T", "-", "i", "n", "f", "r", "a">>

FilterLabels == {TRelease, ISlow, INominated, ASpurious, TInfra}

TStar == <<"T", "-", "*">>

IStar == <<"I", "-", "*">>

NotINominated == <<"!", "I", "-", "n", "o", "m", "i", "n", "a", "t", "e", "d">>

NotINoStar == <<"!", "I", "-", "n", "o", "*">>

\* a pattern glob::Pattern::new refuses: a range that is not closed
OpenRange == <<"[">>

Patterns == {TStar, IStar, NotINominated, NotINoStar, OpenRange}

\* RelabelConfig::allow_unauthenticated
FilterConfigs == UNION {[1..n -> Patterns] : n \in 0..MaxPatterns}

\* the configuration of the unit test test_check_filter
TestConfig == <<TStar, IStar, NotINominated>>

\* glob::Pattern::new(pattern): Err for a range that is not closed
GlobNew(pattern) ==
    IF \E i \in 1..Len(pattern) : pattern[i] = "["
    THEN [ok |-> FALSE]
    ELSE [ok |-> TRUE, glob |-> pattern]

\* glob.matches(label): a character stands for itself, * for any characters
RECURSIVE GlobMatches(_, _)
GlobMatches(glob, label) ==
    IF glob = <<>> THEN label = <<>>
    ELSE IF Head(glob) = "*"
    THEN \E k \in 0..Len(label) :
            GlobMatches(Tail(glob), SubSeq(label, k + 1, Len(label)))
    ELSE /\ label # <<>>
         /\ Head(label) = Head(glob)
         /\ GlobMatches(Tail(glob), Tail(label))

\* match_pattern: MatchPatternResult, or "Err" for the `?` on Pattern::new
MatchPattern(pattern, label) ==
    LET inverse == pattern # <<>> /\ Head(pattern) = "!"
        rest == IF inverse THEN Tail(pattern) ELSE pattern
        glob == GlobNew(rest)
    IN  IF ~glob.ok THEN "Err"
        ELSE IF ~GlobMatches(glob.glob, label) THEN "NoMatch"
        ELSE IF inverse THEN "Deny"
        ELSE "Allow"

\* CheckFilterResult and the Err of check_filter
FilterAllow == [kind |-> "Allow"]

FilterDeny == [kind |-> "Deny"]

FilterDenyUnknown == [kind |-> "DenyUnknown"]

FilterErr(pattern) == [kind |-> "Err", msg |-> <<"failed to match pattern ">> \o pattern]

\* the end of check_filter, after the loop over the patterns
FilterResult(matched, is_member) ==
    IF matched THEN FilterAllow
    ELSE IF is_member = "Outsider" THEN FilterDeny
    ELSE FilterDenyUnknown

\* faulty variant: a deny pattern clears `matched` and the loop goes on
CheckFilterNoBreak(label, config, is_member) ==
    LET RECURSIVE Loop(_, _)
        Loop(i, matched) ==
            IF i > Len(config) THEN FilterResult(matched, is_member)
            ELSE LET m == MatchPattern(config[i], label)
                 IN  CASE m = "Allow" -> Loop(i + 1, TRUE)
                       [] m = "Deny" -> Loop(i + 1, FALSE)
                       [] m = "NoMatch" -> Loop(i + 1, matched)
                       [] m = "Err" -> FilterErr(config[i])
    IN  IF is_member = "Member" THEN FilterAllow ELSE Loop(1, FALSE)

\* check_filter
CheckFilter(label, config, is_member) ==
    LET RECURSIVE Loop(_, _)
        Loop(i, matched) ==
            IF i > Len(config) THEN FilterResult(matched, is_member)
            ELSE LET m == MatchPattern(config[i], label)
                 IN  CASE m = "Allow" -> Loop(i + 1, TRUE)
                       [] m = "Deny" -> FilterResult(FALSE, is_member)
                       [] m = "NoMatch" -> Loop(i + 1, matched)
                       [] m = "Err" -> FilterErr(config[i])
    IN  IF is_member = "Member" THEN FilterAllow ELSE Loop(1, FALSE)

\* LabelDelta
LabelAdd(label) == [kind |-> "Add", label |-> label]

LabelRemove(label) == [kind |-> "Remove", label |-> label]

\* the labels the deltas of a chat command name
DeltaLabels == {TRelease, INominated}

LabelDeltas == {LabelAdd(l) : l \in DeltaLabels} \cup {LabelRemove(l) : l \in DeltaLabels}

\* RelabelCommand.0
DeltaLists == UNION {[1..n -> LabelDeltas] : n \in 0..MaxDeltas}

\* issue.labels(): the labels of the issue, each once
IssueLabelLists ==
    {<<>>, <<TRelease>>, <<INominated>>, <<TRelease, INominated>>, <<INominated, TRelease>>}

\* config.relabel of the repository of the issue: no section, the section of
\* the unit test, a section with a pattern that is no glob
RelabelSections == {None, Some(TestConfig), Some(<<TStar, OpenRange>>)}

RelabelRequests ==
    [sender : Senders, issue_ref : BOOLEAN, section : RelabelSections,
     deltas : DeltaLists, labels : IssueLabelLists]

HasLabel(issue_labels, label) ==
    \E i \in 1..Len(issue_labels) : issue_labels[i] = label

\* issue_labels.iter().position(..) of a label that is there
Position(issue_labels, label) ==
    CHOOSE i \in 1..Len(issue_labels) :
        /\ issue_labels[i] = label
        /\ \A j \in 1..(i - 1) : issue_labels[j] # label

\* faulty variant: every allowed delta sets `changed`
ApplyDeltaAlwaysChanged(issue_labels, delta) ==
    IF delta.kind = "Add"
    THEN IF HasLabel(issue_labels, delta.label)
         THEN [labels |-> issue_labels, changed |-> TRUE]
         ELSE [labels |-> Append(issue_labels, delta.label), changed |-> TRUE]
    ELSE IF HasLabel(issue_labels, delta.label)
         THEN LET pos == Position(issue_labels, delta.label)
              IN  [labels |-> SubSeq(issue_labels, 1, pos - 1)
                                \o SubSeq(issue_labels, pos + 1, Len(issue_labels)),
                   changed |-> TRUE]
         ELSE [labels |-> issue_labels, changed |-> TRUE]

\* handle_input: the match on an allowed delta
ApplyDelta(issue_labels, delta) ==
    IF delta.kind = "Add"
    THEN IF HasLabel(issue_labels, delta.label)
         THEN [labels |-> issue_labels, changed |-> FALSE]
         ELSE [labels |-> Append(issue_labels, delta.label), changed |-> TRUE]
    ELSE IF HasLabel(issue_labels, delta.label)
         THEN LET pos == Position(issue_labels, delta.label)
              IN  [labels |-> SubSeq(issue_labels, 1, pos - 1)
                                \o SubSeq(issue_labels, pos + 1, Len(issue_labels)),
                   changed |-> TRUE]
         ELSE [labels |-> issue_labels, changed |-> FALSE]

\* handle_input: the text of the error comment for a refused label
RefusalText(name, check) ==
    CASE check.kind = "Deny" ->
            <<"Label ">> \o name \o <<" can only be set by Rust team members">>
      [] check.kind = "DenyUnknown" ->
            <<"Label ">> \o name \o <<" can only be set by Rust team members;",
              "we were unable to check if you are a team member.">>
      [] check.kind = "Err" -> check.msg

\* handle_input: the loop over the deltas; the checks made, the refusal it
\* returned on if any, the working copy of the labels and `changed`
DeltaLoop(issue_labels, deltas, config, membership) ==
    LET RECURSIVE Loop(_, _, _, _)
        Loop(i, labels, changed, checks) ==
            IF i > Len(deltas)
            THEN [checks |-> checks, refusal |-> None, labels |-> labels, changed |-> changed]
            ELSE LET name == deltas[i].label
                     check == CheckFilter(name, config, membership)
                     made == Append(checks, [label |-> name, result |-> check])
                     applied == ApplyDelta(labels, deltas[i])
                 IN  IF check.kind # "Allow"
                     THEN [checks |-> made, refusal |-> Some(RefusalText(name, check)),
                           labels |-> labels, changed |-> changed]
                     ELSE Loop(i + 1, applied.labels, changed \/ applied.changed, made)
    IN  Loop(1, issue_labels, FALSE, <<>>)

NotCalled == "NotCalled"

\* zulip::to_github_id was not called; it returned Err
NoGithubId == [called |-> FALSE]

TeamApiFailed == [failed |-> TRUE]

\* handle_zulip_input returns `result`; handle_zulip returns Ok(()) after the
\* parse_input of manage_notifs declined, or HandlerError::Other
RelabelReturn(result) ==
    /\ r_pc' = "returned"
    /\ r_result' = result

\* a chat message with a relabel command arrives; parse_input returned it
RelabelReceive ==
    /\ channel = "relabel"
    /\ r_pc = "idle"
    /\ \E req \in RelabelRequests :
        /\ r_req' = req
        /\ r_labels' = req.labels
    /\ r_pc' = "handle_zulip_input"
    /\ UNCHANGED <<r_github_id, r_membership, r_checks, r_comments, r_set_labels, r_replies, r_result>>
    /\ UNCHANGED <<channel, p_vars, t_vars, store, gh_vars, z_vars>>

\* input.1 is None
RelabelNoIssueRef ==
    /\ r_pc = "handle_zulip_input"
    /\ ~r_req.issue_ref
    /\ r_replies' = Append(r_replies, <<"No issue reference given">>)
    /\ RelabelReturn(OkResult)
    /\ UNCHANGED <<r_req, r_labels, r_github_id, r_membership, r_checks, r_comments, r_set_labels>>
    /\ UNCHANGED <<channel, p_vars, t_vars, store, gh_vars, z_vars>>

\* Issue::get_issue(..).await? or config::get(..).await? failed
RelabelFetchError ==
    /\ r_pc = "handle_zulip_input"
    /\ r_req.issue_ref
    /\ \E what \in {"get_issue", "config::get"} :
        RelabelReturn(HandlerErrorOther(what))
    /\ UNCHANGED <<r_req, r_labels, r_github_id, r_membership, r_checks, r_comments, r_set_labels, r_replies>>
    /\ UNCHANGED <<channel, p_vars, t_vars, store, gh_vars, z_vars>>

\* the repository has no relabel section
RelabelNotEnabled ==
    /\ r_pc = "handle_zulip_input"
    /\ r_req.issue_ref
    /\ r_req.section = None
    /\ r_replies' = Append(r_replies,
            <<"The feature 'relabel' is not enabled in the '", "repository", "' repository.">>)
    /\ RelabelReturn(OkResult)
    /\ UNCHANGED <<r_req, r_labels, r_github_id, r_membership, r_checks, r_comments, r_set_labels>>
    /\ UNCHANGED <<channel, p_vars, t_vars, store, gh_vars, z_vars>>

\* zulip::to_github_id(..).await? : the team API failed
RelabelTeamApiError ==
    /\ r_pc = "handle_zulip_input"
    /\ r_req.issue_ref
    /\ r_req.section # None
    /\ r_github_id' = TeamApiFailed
    /\ RelabelReturn(HandlerErrorOther("zulip_map"))
    /\ UNCHANGED <<r_req, r_labels, r_membership, r_checks, r_comments, r_set_labels, r_replies>>
    /\ UNCHANGED <<channel, p_vars, t_vars, store, gh_vars, z_vars>>

\* Some(id) => is_member_by_id(id, ..), None => TeamMembership::Unknown
MembershipsOf(github_id) ==
    IF github_id = None THEN {"Unknown"} ELSE Memberships

\* the team API answered: handle_input with the membership of the sender; the
\* error comment and set_labels can fail
RelabelHandleInput ==
    /\ r_pc = "handle_zulip_input"
    /\ r_req.issue_ref
    /\ r_req.section # None
    /\ r_github_id' = ToGithubId(r_req.sender)
    /\ \E membership \in MembershipsOf(ToGithubId(r_req.sender)), sent \in BOOLEAN :
        LET loop == DeltaLoop(r_req.labels, r_req.deltas, r_req.section.some, membership)
        IN  /\ r_membership' = membership
            /\ r_checks' = loop.checks
            /\ IF loop.refusal # None
               THEN /\ r_comments' = Append(r_comments, loop.refusal.some)
                    /\ UNCHANGED <<r_set_labels, r_labels>>
                    /\ RelabelReturn(IF sent THEN OkResult ELSE HandlerErrorOther("post"))
               ELSE IF loop.changed
               THEN /\ r_set_labels' = Append(r_set_labels, loop.labels)
                    /\ r_labels' = IF sent THEN loop.labels ELSE r_labels
                    /\ UNCHANGED r_comments
                    /\ RelabelReturn(IF sent THEN OkResult ELSE HandlerErrorOther("set_labels"))
               ELSE /\ UNCHANGED <<r_comments, r_set_labels, r_labels>>
                    /\ RelabelReturn(OkResult)
    /\ UNCHANGED <<r_req, r_replies>>
    /\ UNCHANGED <<channel, p_vars, t_vars, store, gh_vars, z_vars>>

NoRelabelRequest == [sender |-> 0]

\* the caller has taken the response; the next message can be handled
RelabelReturned ==
    /\ channel = "relabel"
    /\ r_pc = "returned"
    /\ r_pc' = "idle"
    /\ r_req' = NoRelabelRequest
    /\ r_labels' = <<>>
    /\ r_github_id' = NoGithubId
    /\ r_membership' = NotCalled
    /\ r_checks' = <<>>
    /\ r_comments' = <<>>
    /\ r_set_labels' = <<>>
    /\ r_replies' = <<>>
    /\ r_result' = NoResult
    /\ UNCHANGED <<channel, p_vars, t_vars, store, gh_vars, z_vars>>

\* a call of check_filter alone
CheckFilterCall ==
    /\ channel = "check_filter"
    /\ r_pc = "idle"
    /\ \E label \in FilterLabels, config \in FilterConfigs, is_member \in Memberships :
        /\ r_req' = [label |-> label, config |-> config, is_member |-> is_member]
        /\ r_checks' = <<[label |-> label, result |-> CheckFilter(label, config, is_member)]>>
    /\ r_pc' = "returned"
    /\ UNCHANGED <<r_labels, r_github_id, r_membership, r_comments, r_set_labels, r_replies, r_result>>
    /\ UNCHANGED <<channel, p_vars, t_vars, store, gh_vars, z_vars>>

\* the caller has taken the result of check_filter
CheckFilterReturned ==
    /\ channel = "check_filter"
    /\ r_pc = "returned"
    /\ r_pc' = "idle"
    /\ r_req' = NoRelabelRequest
    /\ r_checks' = <<>>
    /\ UNCHANGED <<r_labels, r_github_id, r_membership, r_comments, r_set_labels, r_replies, r_result>>
    /\ UNCHANGED <<channel, p_vars, t_vars, store, gh_vars, z_vars>>

RelabelInit ==
    /\ r_pc = "idle"
    /\ r_req = NoRelabelRequest
    /\ r_labels = <<>>
    /\ r_github_id = NoGithubId
    /\ r_membership = NotCalled
    /\ r_checks = <<>>
    /\ r_comments = <<>>
    /\ r_set_labels = <<>>
    /\ r_replies = <<>>
    /\ r_result = NoResult

RelabelNext ==
    \/ RelabelReceive
    \/ RelabelNoIssueRef
    \/ RelabelFetchError
    \/ RelabelNotEnabled
    \/ RelabelTeamApiError
    \/ RelabelHandleInput
    \/ RelabelReturned

CheckFilterNext == CheckFilterCall \/ CheckFilterReturned

----------------------------------------------------------------------------

Init ==
    /\ channel \in {"github", "zulip"}
    /\ GithubInit
    /\ ZulipInit
    /\ ParseInit
    /\ TasksInit
    /\ RelabelInit

Next == GithubNext \/ ZulipNext

Spec == Init /\ [][Next]_vars

\* the calls of NotifCommand::parse alone
InitParse ==
    /\ channel = "parser"
    /\ GithubInit
    /\ ZulipInit
    /\ ParseInit
    /\ TasksInit
    /\ RelabelInit

SpecParse == InitParse /\ [][ParseNext]_vars

\* chat messages with notification commands handled at the same time
InitConcurrent ==
    /\ channel = "concurrent"
    /\ GithubInit
    /\ ZulipInit
    /\ ParseInit
    /\ TasksInit
    /\ RelabelInit

SpecConcurrent == InitConcurrent /\ [][TasksNext]_vars

\* chat messages from their tokens to the reply
InitMessage ==
    /\ channel = "message"
    /\ GithubInit
    /\ ZulipInit
    /\ ParseInit
    /\ TasksInit
    /\ RelabelInit

SpecMessage == InitMessage /\ [][MessageNext]_vars

\* chat messages with a relabel command
InitRelabel ==
    /\ channel = "relabel"
    /\ GithubInit
    /\ ZulipInit
    /\ ParseInit
    /\ TasksInit
    /\ RelabelInit

SpecRelabel == InitRelabel /\ [][RelabelNext]_vars

\* the calls of check_filter alone
InitCheckFilter ==
    /\ channel = "check_filter"
    /\ GithubInit
    /\ ZulipInit
    /\ ParseInit
    /\ TasksInit
    /\ RelabelInit

SpecCheckFilter == InitCheckFilter /\ [][CheckFilterNext]_vars

----------------------------------------------------------------------------
(* Properties of the dispatch                                              *)

Names(calls) == [i \in 1..Len(calls) |-> calls[i].name]

Steps(calls) == [i \in 1..Len(calls) |-> calls[i].step]

IsPrefix(s, t) == Len(s) <= Len(t) /\ SubSeq(t, 1, Len(s)) = s

\* the handlers whose parse_input returned Ok(Some(input)), in call order
MatchedNames(calls) ==
    LET RECURSIVE Pick(_)
        Pick(i) == IF i > Len(calls) THEN <<>>
                   ELSE IF calls[i].outcome = "Some" THEN <<calls[i].name>> \o Pick(i + 1)
                   ELSE Pick(i + 1)
    IN  Pick(1)

SeqRange(s) == {s[i] : i \in 1..Len(s)}

\* C1 as stated: chat dispatch is first-match-wins: once a handler's
\* parse_input has returned Some(input) and it was executed, no further
\* handler's parse_input or execute is invoked for the message.
C1_FirstMatchWins ==
    /\ IsPrefix(Names(z_parsed), ZulipHandlers)
    /\ Len(z_executed) <= 1
    /\ \A i \in 1..Len(z_parsed) : z_parsed[i].outcome = "Some" => i = Len(z_parsed)

\* C1 amended: chat handlers are tried in the registration order (relabel,
\* then manage_notifs); each handler whose parse_input returns Some(input) is
\* executed, at most one handler executes per message, and a handler that
\* executed without error does not end the dispatch: whenever handle_zulip
\* returns Ok(()) the parse_input of every registered handler was invoked.
C1_TriedInOrderAtMostOneExecutes ==
    /\ IsPrefix(Names(z_parsed), ZulipHandlers)
    /\ z_executed = MatchedNames(z_parsed)
    /\ Len(z_executed) <= 1
    /\ (z_pc = "returned" /\ z_result = OkResult) => Names(z_parsed) = ZulipHandlers

\* relabel has executed and manage_notifs was parsed after it
C1_Witness ==
    /\ z_pc = "returned"
    /\ z_result = OkResult
    /\ z_executed = <<"relabel">>
    /\ Names(z_parsed) = <<"relabel", "manage_notifs">>

\* C2: for every dispatched code-hosting event both post-processing steps
\* (notification::handle, then rustc_commits::handle) are invoked, whatever
\* the outcome of the handlers' parse_input, feature gating and execute.
C2_PostStepsAlwaysInvoked ==
    gh_pc = "returned" => Steps(gh_post) = PostSteps

\* C3: the post-processing steps are fault-isolated: an error of
\* notification::handle or rustc_commits::handle is logged and discarded, the
\* result of handle_github stays Ok(()), the handlers that executed stay
\* executed, and rustc_commits::handle is invoked even if
\* notification::handle failed.
C3_PostStepsFaultIsolated ==
    gh_post # <<>> =>
        /\ IsPrefix(Steps(gh_post), PostSteps)
        /\ gh_pc \in {"rustc_commits", "returned"}
        /\ gh_result = (IF gh_pc = "returned" THEN OkResult ELSE NoResult)
        /\ gh_pc = "returned" => Steps(gh_post) = PostSteps
        /\ gh_executed = MatchedNames(gh_parsed)
        /\ \A i \in 1..Len(gh_post) :
              gh_post[i].outcome = "Err" <=> gh_post[i].step \in SeqRange(gh_log)

\* both steps failed after a handler had executed, and handle_github returned Ok(())
C3_Witness ==
    /\ gh_pc = "returned"
    /\ gh_result = OkResult
    /\ gh_executed # <<>>
    /\ Len(gh_post) = 2
    /\ gh_post[1].outcome = "Err"
    /\ gh_post[2].outcome = "Err"
    /\ gh_log = PostSteps

\* C4: a parse_input error aborts the dispatch at once with that message as
\* a user-facing HandlerError::Message: the handler is not executed and no
\* later handler is parsed or executed; on the chat channel the message is
\* the content of the reply.
C4_ParseErrorAborts ==
    /\ \A i \in 1..Len(gh_parsed) :
          gh_parsed[i].outcome = "Err" =>
              /\ i = Len(gh_parsed)
              /\ gh_pc = "returned"
              /\ gh_result = HandlerErrorMessage(ParseErrorText(gh_parsed[i].name))
              /\ gh_executed = MatchedNames(SubSeq(gh_parsed, 1, i - 1))
    /\ \A i \in 1..Len(z_parsed) :
          z_parsed[i].outcome = "Err" =>
              /\ i = Len(z_parsed)
              /\ z_pc = "returned"
              /\ z_result = HandlerErrorMessage(ZulipParseErrorText)
              /\ z_response = ZulipParseErrorText
              /\ z_executed = MatchedNames(SubSeq(z_parsed, 1, i - 1))
              /\ z_before = store

\* a parse error of a handler that is not the first one, after an earlier
\* handler executed (code hosting), or of manage_notifs (chat)
C4_Witness ==
    \/ /\ gh_pc = "returned"
       /\ Len(gh_parsed) > 1
       /\ gh_parsed[Len(gh_parsed)].outcome = "Err"
       /\ gh_executed # <<>>
    \/ /\ z_pc = "returned"
       /\ Len(z_parsed) = 2
       /\ z_parsed[2].outcome = "Err"

\* a parse_input call that returned Some(input) for a feature without section
NotEnabledCall(i) ==
    /\ gh_config.kind = "Ok"
    /\ gh_parsed[i].outcome = "Some"
    /\ gh_parsed[i].config = "None"

\* C5 as stated: an event for which a handler's parse_input yields
\* Some(input) while the feature's section is absent produces the fixed
\* "not enabled" message, the handler is not executed and the dispatch of the
\* event causes no state mutation.
C5_NotEnabledNoMutation ==
    \A i \in 1..Len(gh_parsed) :
        NotEnabledCall(i) =>
            /\ gh_result = HandlerErrorMessage(NotEnabledText(gh_parsed[i].name))
            /\ gh_executed = <<>>

\* C5 amended: such an event produces the fixed "not enabled" message naming
\* the feature and the dispatch ends there: that handler's execute is never
\* called and no handler later in the registration order is parsed or
\* executed; handlers earlier in the order whose section is present and whose
\* parse_input matched have already executed.
C5_NotEnabledAborts ==
    \A i \in 1..Len(gh_parsed) :
        NotEnabledCall(i) =>
            /\ i = Len(gh_parsed)
            /\ gh_pc = "returned"
            /\ gh_result = HandlerErrorMessage(NotEnabledText(gh_parsed[i].name))
            /\ gh_parsed[i].name \notin SeqRange(gh_executed)
            /\ gh_executed = MatchedNames(SubSeq(gh_parsed, 1, i - 1))
            /\ \A j \in 1..Len(gh_executed) : gh_executed[j] \in gh_config.sections

\* a not-enabled abort after an earlier handler has executed
C5_Witness ==
    /\ gh_pc = "returned"
    /\ gh_parsed # <<>>
    /\ NotEnabledCall(Len(gh_parsed))
    /\ gh_executed # <<>>

\* C6: when parse_input yields Some(input) and the configuration failed to
\* load, handle_github aborts without calling execute; Missing and Toml give
\* HandlerError::Message with the configuration error text, Http gives
\* HandlerError::Other; parse_input sees config = None in all three classes.
C6_ConfigFailureClassified ==
    gh_config.kind # "Ok" =>
        /\ gh_executed = <<>>
        /\ \A i \in 1..Len(gh_parsed) :
              /\ gh_parsed[i].config = "None"
              /\ gh_parsed[i].outcome = "Some" =>
                    /\ i = Len(gh_parsed)
                    /\ gh_pc = "returned"
                    /\ gh_result.kind =
                          (IF gh_config.kind = "Http" THEN "Other" ELSE "Message")
                    /\ gh_result.kind = "Message" =>
                          gh_result.text = ConfigErrorText(gh_config.kind)

\* a handler matched with a transient configuration failure
C6_Witness ==
    /\ gh_pc = "returned"
    /\ gh_config.kind = "Http"
    /\ Len(gh_parsed) > 1
    /\ gh_parsed[Len(gh_parsed)].outcome = "Some"
    /\ gh_result.kind = "Other"

----------------------------------------------------------------------------
(* Properties of the notification list                                     *)

\* a notification command of the given kind has run for a known sender
CommandRan(kind) ==
    /\ z_pc = "returned"
    /\ z_out # NoOut
    /\ z_req.cmd.command.kind = kind

ActingOwner == ZulipMap[z_req.sender]

Before == z_before[ActingOwner]

After == store[ActingOwner]

Content(e) ==
    [origin_url |-> e.origin_url, short_description |-> e.short_description,
     metadata |-> e.metadata]

\* the entries of a list without their idx, in the order of their idx
Contents(list) == [i \in 1..Len(ByIdx(list)) |-> Content(ByIdx(list)[i])]

RemoveAt(s, i) == SubSeq(s, 1, i - 1) \o SubSeq(s, i + 1, Len(s))

\* C7: in every reachable state the positions of each owner's list are
\* exactly 1..N, without gap or duplicate, whatever Acknowledge, Add, Move
\* and AddMetadata operations, successful or failed, came before.
C7_PositionsContiguous ==
    \A o \in Owners :
        /\ {e.idx : e \in store[o]} = 1..Cardinality(store[o])
        /\ \A e, f \in store[o] : e.idx = f.idx => e = f

\* a removal from the head of a list of three has renumbered the other two
C7_Witness ==
    /\ CommandRan("Acknowledge")
    /\ z_db.op = "delete_ping"
    /\ z_db.ident = [kind |-> "Index", n |-> 1]
    /\ Cardinality(Before) = 3
    /\ Cardinality(After) = 2

\* C8: Acknowledge with a position p in [1, N] removes exactly the entry at
\* p, returns it, and leaves N-1 entries renumbered 1..N-1 in their previous
\* order; with a position above N it fails with NotFound and changes
\* nothing (position 0 is no Identifier: the command fails before the store
\* is called); with a URL it removes and returns all entries with that
\* origin_url, none matching being no error.
C8_Acknowledge ==
    CommandRan("Acknowledge") =>
        LET arg == z_req.cmd.command.idx
            p == ParseUsize(arg)
            N == Cardinality(Before)
        IN  IF z_db = MakeClientFailed THEN store = z_before
            ELSE IF p.ok /\ p.value = 0
            THEN z_db = NoDbCall /\ z_out.kind = "Err" /\ store = z_before
            ELSE /\ z_db.op = "delete_ping"
                 /\ IF p.ok /\ p.value \in 1..N
                    THEN LET target == CHOOSE e \in Before : e.idx = p.value
                         IN  /\ z_db.result.ok
                             /\ z_db.result.deleted = <<target>>
                             /\ Cardinality(After) = N - 1
                             /\ After = {IF e.idx > p.value
                                         THEN [e EXCEPT !.idx = e.idx - 1] ELSE e :
                                         e \in Before \ {target}}
                    ELSE IF p.ok
                    THEN /\ ~z_db.result.ok
                         /\ z_db.result.error = "NotFound"
                         /\ After = Before
                    ELSE LET gone == {e \in Before : e.origin_url = arg}
                         IN  /\ z_db.result.ok
                             /\ z_db.result.deleted = ByIdx(gone)
                             /\ After =
                                  {[e EXCEPT !.idx =
                                       e.idx - Cardinality({f \in gone : f.idx < e.idx})] :
                                   e \in Before \ gone}
                             /\ gone = {} => (After = Before /\ z_db.result.deleted = <<>>)

\* the middle entry of a list of three was acknowledged by its position
C8_Witness ==
    /\ CommandRan("Acknowledge")
    /\ z_db.op = "delete_ping"
    /\ z_db.ident = [kind |-> "Index", n |-> 2]
    /\ Cardinality(Before) = 3
    /\ Len(z_db.result.deleted) = 1
    /\ Contents(After) = RemoveAt(Contents(Before), 2)
    /\ Contents(Before)[1] # Contents(Before)[3]

\* both arguments of the move command are positions of the list as it was
MoveInRange ==
    LET f == ParseUsize(z_req.cmd.command.from)
        t == ParseUsize(z_req.cmd.command.to)
    IN  /\ f.ok /\ f.value \in 1..Cardinality(Before)
        /\ t.ok /\ t.value \in 1..Cardinality(Before)

\* C9: Move(from, to) with both positions in [1, N] permutes the list: the
\* entry formerly at `from` is at `to`, the other entries keep their
\* relative order, Move(to, from) on the result restores the original, and
\* from = to changes nothing.
C9_MoveIsPermutation ==
    (CommandRan("Move") /\ MoveInRange /\ z_db # MakeClientFailed) =>
        LET from == ParseUsize(z_req.cmd.command.from).value
            to == ParseUsize(z_req.cmd.command.to).value
            b == Contents(Before)
            a == Contents(After)
        IN  /\ z_db.op = "move_indices"
            /\ z_db.result.ok
            /\ {e.idx : e \in After} = 1..Cardinality(Before)
            /\ Len(a) = Len(b)
            /\ a[to] = b[from]
            /\ RemoveAt(a, to) = RemoveAt(b, from)
            /\ MoveNotification(After, z_req.cmd.command.to,
                                z_req.cmd.command.from, TRUE).list = Before
            /\ from = to => After = Before
            /\ z_out = OutOk(<<"Moved ">> \o z_req.cmd.command.from \o <<" to ">>
                                \o z_req.cmd.command.to \o <<".">>)

\* the first of three different entries was moved to the end
C9_Witness ==
    /\ CommandRan("Move")
    /\ z_db.op = "move_indices"
    /\ z_db.result.ok
    /\ z_req.cmd.command.from = <<"1">>
    /\ z_req.cmd.command.to = <<"3">>
    /\ Cardinality(Before) = 3
    /\ Cardinality({Contents(Before)[i] : i \in 1..3}) = 3
    /\ After # Before

AddedEntry ==
    [idx |-> Cardinality(Before) + 1,
     origin_url |-> z_req.cmd.command.url,
     short_description |-> IF z_req.cmd.command.description = <<>> THEN None
                           ELSE Some(z_req.cmd.command.description),
     metadata |-> None]

\* an Add command has run and record_ping returned Ok
AddSucceeded ==
    /\ CommandRan("Add")
    /\ z_db.op = "record_ping"
    /\ z_db.result.ok

\* C11: after Add(url, description) on a list of size N, Acknowledge(N+1)
\* run at once on the result gives back exactly the list as it was before
\* the Add (same entries, same positions) and returns exactly the entry that
\* was added.
C11_AddThenAcknowledgeRoundTrip ==
    AddSucceeded =>
        LET r == Acknowledge(After, UsizeToString(Cardinality(Before) + 1), TRUE)
        IN  /\ r.db.op = "delete_ping"
            /\ r.db.ident = [kind |-> "Index", n |-> Cardinality(Before) + 1]
            /\ r.db.result.ok
            /\ r.db.result.deleted = <<AddedEntry>>
            /\ r.list = Before
            /\ Contents(r.list) = Contents(Before)

\* an entry was added to a list of two different entries
C11_Witness ==
    /\ AddSucceeded
    /\ Cardinality(Before) = 2
    /\ Contents(Before)[1] # Contents(Before)[2]
    /\ After # Before

\* C12: Add(url, description) on a list of size N is never refused by the
\* store (it fails only when the database cannot be reached, and then
\* changes nothing); it appends exactly one entry, at position N+1, and
\* leaves the N entries and their positions as they were; an empty
\* description is stored as None, a non-empty one as given; the first Add of
\* an owner creates the list.
C12_AddAppends ==
    CommandRan("Add") =>
        /\ z_db.op = "record_ping"
        /\ z_db.url = z_req.cmd.command.url
        /\ z_db.short_description = AddedEntry.short_description
        /\ RecordPing(Before, z_db.url, z_db.short_description).ok
        /\ IF z_db.result.ok
           THEN /\ After = Before \cup {AddedEntry}
                /\ Cardinality(After) = Cardinality(Before) + 1
                /\ z_out = OutOk(<<"Created!">>)
           ELSE /\ z_db.result.error = "Io"
                /\ store = z_before

\* the first Add of an owner, without a description, then one with a
\* description: the list holds both, the first without short_description
C12_Witness ==
    /\ AddSucceeded
    /\ z_req.cmd.command.description # <<>>
    /\ Before = {[idx |-> 1, origin_url |-> <<"u">>, short_description |-> None,
                  metadata |-> None]}
    /\ After = Before \cup {[idx |-> 2, origin_url |-> z_req.cmd.command.url,
                             short_description |-> Some(z_req.cmd.command.description),
                             metadata |-> None]}

C15_OwnerIndependence ==
    (z_req # NoRequest /\ z_req.sender \in DOMAIN ZulipMap) =>
        \A o \in Owners \ {ActingOwner} : store[o] = z_before[o]

\* a command changed the list of its owner while another owner had entries
C15_Witness ==
    /\ z_pc = "returned"
    /\ z_out # NoOut
    /\ After # Before
    /\ \E o \in Owners \ {ActingOwner} : store[o] # {} /\ store[o] = z_before[o]

\* the GitHub id a command is said to act for: the sender's, or the
\* delegate's when the command carries a user_override
ResolvedActingUser ==
    IF z_req.cmd.user_override = None THEN ZulipMap[z_req.sender]
    ELSE GithubLogins[z_req.cmd.user_override.some]

\* C16: a notification command changes no list but the one of the resolved
\* acting user: the sender's without user_override, the delegate's with it.
C16_ActsForResolvedUser ==
    (z_pc = "returned" /\ z_out # NoOut) =>
        \A o \in Owners \ {ResolvedActingUser} : store[o] = z_before[o]

----------------------------------------------------------------------------
(* Properties of NotifCommand::parse                                       *)

\* the input starts with the word `as`
HasPrefixWord == p_input # <<>> /\ p_input[1] = Word(As)

\* the input has no prefix, or the whole prefix `as <user>`
PrefixComplete ==
    HasPrefixWord => (Len(p_input) >= 2 /\ p_input[2].type = "Word")

\* the input after the prefix `as <user>`, if there is one
Remainder ==
    IF HasPrefixWord /\ PrefixComplete THEN SubSeq(p_input, 3, Len(p_input))
    ELSE p_input

\* after the prefix, if any, comes a keyword of the family
KeywordRecognized ==
    /\ PrefixComplete
    /\ Remainder # <<>>
    /\ Remainder[1].type = "Word"
    /\ Remainder[1].text \in Keywords

\* after the prefix, if any, comes a word that is no keyword, a token that
\* is no word, or nothing
NoKeyword ==
    /\ PrefixComplete
    /\ \/ Remainder = <<>>
       \/ Remainder[1].type \notin {"Word", "Unterminated"}
       \/ Remainder[1].type = "Word" /\ Remainder[1].text \notin Keywords

\* C17: once a keyword of the family is recognized, parse never returns
\* Ok(None): a remainder that cannot be parsed is an Err, and Ok(None) is
\* returned only when no keyword is recognized.
C17_CommitOnKeyword ==
    (p_pc = "parsed" /\ KeywordRecognized) => p_result # ParseNone

\* C18: when the next word is no keyword of the family, or the next token
\* is no word, parse returns Ok(None) and the caller's cursor is where it
\* was, whatever parse consumed from its own copy.
C18_NoMatchLeavesCursor ==
    (p_pc = "parsed" /\ NoKeyword) =>
        /\ p_result = ParseNone
        /\ p_cursor = p_input

\* `as x x`: parse consumed the prefix from its copy and found no keyword
C18_Witness ==
    /\ p_pc = "parsed"
    /\ p_input = <<Word(As), Word(<<"x">>), Word(<<"x">>)>>
    /\ p_result = ParseNone
    /\ p_toks = <<Word(<<"x">>)>>
    /\ p_cursor = p_input

\* the texts of the words at the head of a token sequence
RECURSIVE WordsBefore(_)
WordsBefore(toks) ==
    IF toks = <<>> \/ Head(toks).type # "Word" THEN <<>>
    ELSE <<Head(toks).text>> \o WordsBefore(Tail(toks))

RECURSIVE JoinWithSpaces(_)
JoinWithSpaces(words) ==
    IF words = <<>> THEN <<>>
    ELSE IF Len(words) = 1 THEN words[1]
    ELSE words[1] \o <<" ">> \o JoinWithSpaces(Tail(words))

\* the input is `add "<url>" w1 ... wk` followed by a terminator or the end
AddWithDescription ==
    /\ Len(p_input) >= 2
    /\ p_input[1] = Word(Add)
    /\ p_input[2].type = "Quote"
    /\ LET rest == SubSeq(p_input, 3, Len(p_input))
           k == Len(WordsBefore(rest))
       IN  k = Len(rest) \/ rest[k + 1].type \in {"Semi", "Dot", "EndOfLine"}

\* C19: `add "<url>" w1 ... wk` followed by Semi, Dot, EndOfLine or the end
\* of the input parses to Add(url, d), d being w1 .. wk joined by single
\* spaces, without trailing space, and empty when k = 0.
C19_AddParses ==
    (p_pc = "parsed" /\ AddWithDescription) =>
        p_result = ParseSome([kind |-> "Add", url |-> p_input[2].text,
                              description |->
                                  JoinWithSpaces(WordsBefore(SubSeq(p_input, 3, Len(p_input))))],
                             None)

\* C20: `ack <arg>` and `acknowledge <arg>` parse to Acknowledge carrying
\* the word or quoted literal that follows the keyword, and
\* `move <from> <to>` to Move carrying the two arguments that follow the
\* keyword, in order.
C20_ArgumentsFollowKeyword ==
    p_pc = "parsed" =>
        /\ (/\ Len(p_input) >= 2
            /\ p_input[1] \in {Word(Ack), Word(AcknowledgeWord)}
            /\ p_input[2].type \in {"Word", "Quote"})
                => p_result = ParseSome([kind |-> "Acknowledge", idx |-> p_input[2].text],
                                        None)
        /\ (/\ Len(p_input) >= 3
            /\ p_input[1] = Word(Move)
            /\ p_input[2].type \in {"Word", "Quote"}
            /\ p_input[3].type \in {"Word", "Quote"})
                => p_result = ParseSome([kind |-> "Move", from |-> p_input[2].text,
                                         to |-> p_input[3].text], None)

----------------------------------------------------------------------------
(* Properties of concurrent notification commands                          *)

\* the store after the command of a task has run alone on the store `st`
RunAlone(st, t) ==
    IF t_task[t].pc = "done" /\ t_task[t].called
    THEN [st EXCEPT ![t_task[t].gh_id] =
            RunCommand(st[t_task[t].gh_id], t_task[t].req.command, t_task[t].db_up).list]
    ELSE st

\* the store after the commands of the tasks of `order` have run one after
\* the other
RECURSIVE RunInOrder(_, _)
RunInOrder(st, order) ==
    IF order = <<>> THEN st
    ELSE RunInOrder(RunAlone(st, Head(order)), Tail(order))

\* both messages are answered, and both ran a command for the same owner
BothRanForOneOwner ==
    /\ \A t \in Tasks : t_task[t].pc = "done" /\ t_task[t].called
    /\ t_task[1].gh_id = t_task[2].gh_id

CommandFor(toks, user_override) ==
    LET command == ParseCommandKind(toks)
    IN  IF command.returns THEN command.result
        ELSE ParseSome(command.value, user_override)

\* C23: `as` followed by a word makes that word the user_override and the
\* command is parsed from the tokens after that word; `as` followed by the end of the input, a quote or a terminator
\* gives Ok(None), not an error; without the prefix user_override is None.
C23_DelegationPrefix ==
    p_pc = "parsed" =>
        /\ (HasPrefixWord /\ PrefixComplete) =>
                p_result = CommandFor(Remainder, Some(p_input[2].text))
        /\ (HasPrefixWord /\ (Len(p_input) = 1
                              \/ (Len(p_input) >= 2 /\ p_input[2].type \in
                                     {"Quote", "Semi", "Dot", "EndOfLine"}))) =>
                p_result = ParseNone
        /\ (~HasPrefixWord /\ p_result.kind = "Some") =>
                /\ p_result.user_override = None
                /\ p_result = CommandFor(p_input, None)

\* `as x ack 1`: a command parsed for the delegate x
C23_Witness ==
    /\ p_pc = "parsed"
    /\ p_input = <<Word(As), Word(<<"x">>), Word(Ack), Word(<<"1">>)>>
    /\ p_result.kind = "Some"
    /\ p_result.user_override = Some(<<"x">>)

----------------------------------------------------------------------------
(* Properties of chat messages from their tokens to the reply              *)

\* the sender of the message handled is known and a command ran for them
MessageRan == z_pc = "returned" /\ z_out # NoOut

\* the message names position 0 in an acknowledge or a move
PositionZeroMessage ==
    \/ /\ Len(p_input) = 2
       /\ p_input[1] \in {Word(Ack), Word(AcknowledgeWord)}
       /\ p_input[2] = Word(Zero)
    \/ /\ Len(p_input) = 3
       /\ p_input[1] = Word(Move)
       /\ Word(Zero) \in {p_input[2], p_input[3]}

\* the command failed and the user is told so
FailureReported == z_result.kind \in {"Message", "Other"} /\ z_response # <<>>

\* C21: a message that names position 0 in acknowledge or move is rejected:
\* no store operation is performed, no list is modified and the user gets a
\* failure; it is never a silent no-op
C21_PositionZeroRejected ==
    (MessageRan /\ PositionZeroMessage) =>
        /\ z_db \in {NoDbCall, MakeClientFailed}
        /\ store = z_before
        /\ FailureReported

\* the message is `meta` followed by a word, its position
MetaMessage ==
    /\ Len(p_input) >= 2
    /\ p_input[1] = Word(Meta)
    /\ p_input[2].type = "Word"

\* C22: a meta message yields a Meta command of its position and text, and
\* executing it never appends an entry to a list
C22_MetaIsMeta ==
    /\ (p_pc = "parsed" /\ MetaMessage) =>
            /\ p_result.kind = "Some"
            /\ p_result.command.kind = "Meta"
            /\ p_result.command.idx = p_input[2].text
    /\ (MessageRan /\ MetaMessage) =>
            /\ z_db.op # "record_ping"
            /\ \A o \in Owners : Cardinality(store[o]) = Cardinality(z_before[o])

----------------------------------------------------------------------------
(* Properties of what the user sees of an error                            *)

InternalErrorText == <<"An internal error occurred.">>

HandlingFailedText == <<"handling failed, error logged">>

\* C24: an internal error (a handle_input that failed, a configuration that
\* could not be fetched) is HandlerError::Other; it displays as "An internal
\* error occurred." and the chat reply for it is "handling failed, error
\* logged", whatever the error was; the text of a HandlerError::Message is
\* shown as it is
C24_InternalErrorsGeneric ==
    /\ (gh_pc = "returned" /\ gh_post = <<>> /\ gh_parsed # <<>>
            /\ gh_parsed[Len(gh_parsed)].outcome = "Some"
            /\ (gh_config.kind = "Http"
                    \/ (gh_executed # <<>>
                        /\ gh_executed[Len(gh_executed)] = gh_parsed[Len(gh_parsed)].name))) =>
            /\ gh_result.kind = "Other"
            /\ Display(gh_result) = InternalErrorText
    /\ (gh_pc = "returned" /\ gh_result.kind = "Message") =>
            Display(gh_result) = gh_result.text
    /\ (z_pc = "returned" /\ (z_out.kind = "Err"
            \/ (z_executed # <<>> /\ z_result.kind \notin {"Ok", "Running"}))) =>
            /\ z_result.kind = "Other"
            /\ Display(z_result) = InternalErrorText
            /\ z_response = HandlingFailedText
    /\ (z_pc = "returned" /\ z_result.kind = "Message") =>
            /\ z_response = z_result.text
            /\ Display(z_result) = z_result.text

C24_Witness ==
    /\ z_pc = "returned"
    /\ z_out = OutErr("make_client")
    /\ z_result = HandlerErrorOther("make_client")
    /\ z_response = HandlingFailedText

\* the store operation of the message handled was called and failed
StoreFailed ==
    /\ z_pc = "returned"
    /\ z_db.op \in {"delete_ping", "record_ping", "move_indices", "add_metadata"}
    /\ ~z_db.result.ok

\* the texts of a reply
Pieces(reply) == {reply[i] : i \in 1..Len(reply)}

\* C27: a store failure of a notification command is classified: NotFound
\* and InvalidPosition are told to the user in the reply, a storage I/O
\* failure is an internal error and its detail is not in the reply
C27_StoreFailuresClassified ==
    /\ (StoreFailed /\ z_db.result.error \in {"NotFound", "InvalidPosition"}) =>
            /\ z_result = OkResult
            /\ z_out.kind = "Ok"
            /\ z_db.result.error \in Pieces(z_out.reply)
    /\ (StoreFailed /\ z_db.result.error = "Io") =>
            /\ z_result.kind = "Other"
            /\ z_response = HandlingFailedText
            /\ z_out.kind = "Ok" => "Io" \notin Pieces(z_out.reply)

----------------------------------------------------------------------------
(* Properties of the code-hosting dispatch as a whole                      *)

\* the handlers whose parse_input returned Some(input) with their section
\* present, in call order
EnabledMatches(calls) ==
    LET RECURSIVE Pick(_)
        Pick(i) == IF i > Len(calls) THEN <<>>
                   ELSE IF calls[i].outcome = "Some" /\ calls[i].config = "Some"
                        THEN <<calls[i].name>> \o Pick(i + 1)
                   ELSE Pick(i + 1)
    IN  Pick(1)

\* handle_input of the handler called last returned Err
ExecuteFailed ==
    /\ gh_executed # <<>>
    /\ gh_result = HandlerErrorOther(ExecuteError(gh_executed[Len(gh_executed)]))

\* C29: the handlers are parsed in registration order and every one that
\* yields Some(input) with its section present is executed, in that order,
\* not only the first; a dispatch that ends without error has tried every
\* registered handler; an execute failure ends the dispatch at once with
\* HandlerError::Other: the failed handler is the last one parsed and
\* executed, and the handlers executed before it stay executed
C29_EveryEnabledMatchExecutes ==
    /\ IsPrefix(Names(gh_parsed), GithubHandlers)
    /\ gh_executed = EnabledMatches(gh_parsed)
    /\ gh_result = NoResult \/ gh_pc = "returned"
    /\ (gh_pc = "returned" /\ gh_result = OkResult) => Names(gh_parsed) = GithubHandlers
    /\ ExecuteFailed =>
            /\ gh_pc = "returned"
            /\ gh_post = <<>>
            /\ gh_parsed[Len(gh_parsed)].name = gh_executed[Len(gh_executed)]

\* two handlers executed, the third failed and the dispatch ended there
C29_Witness ==
    /\ gh_pc = "returned"
    /\ ExecuteFailed
    /\ Len(gh_executed) = 3
    /\ Len(gh_parsed) < Len(GithubHandlers)

----------------------------------------------------------------------------
(* Properties of the label filter                                          *)

\* check_filter was called alone and has returned
FilterChecked == channel = "check_filter" /\ r_pc = "returned"

\* the label matches an allow pattern, a deny pattern of the configuration
MatchesAllow(config, label) ==
    \E i \in 1..Len(config) : MatchPattern(config[i], label) = "Allow"

MatchesDeny(config, label) ==
    \E i \in 1..Len(config) : MatchPattern(config[i], label) = "Deny"

\* the result for a label that is refused
Refused(is_member) ==
    IF is_member = "Outsider" THEN FilterDeny ELSE FilterDenyUnknown

\* the result the claim gives for a user who is no team member
FilterByPatterns(config, label, is_member) ==
    IF MatchesAllow(config, label) /\ ~MatchesDeny(config, label)
    THEN FilterAllow
    ELSE Refused(is_member)

\* C26 as stated: a team member may set any label; for an outsider or a
\* user of unknown membership a label is allowed iff it matches an allow
\* pattern and no deny pattern, in whatever order the patterns are; a
\* refused label gives Deny for an outsider, DenyUnknown otherwise
C26_FilterAsStated ==
    FilterChecked =>
        r_checks[1].result =
            (IF r_req.is_member = "Member" THEN FilterAllow
             ELSE FilterByPatterns(r_req.config, r_req.label, r_req.is_member))

\* the patterns check_filter looks at: up to the first deny pattern the
\* label matches, all of them when there is none
LookedAt(config, label) ==
    {i \in 1..Len(config) :
        \A j \in 1..(i - 1) : MatchPattern(config[j], label) # "Deny"}

\* the patterns looked at that are no glob
Invalid(config, label) ==
    {i \in LookedAt(config, label) : MatchPattern(config[i], label) = "Err"}

\* C26 amended: as stated when every pattern looked at is a glob; when one
\* of the patterns before the first deny pattern the label matches is no
\* glob, check_filter returns the error that names the first such pattern,
\* for an outsider and for unknown membership alike, whatever the label
\* matched; a team member is allowed without looking at the patterns
C26_FilterWithPatternErrors ==
    FilterChecked =>
        LET config == r_req.config
            label == r_req.label
            invalid == Invalid(config, label)
        IN  r_checks[1].result =
                (IF r_req.is_member = "Member" THEN FilterAllow
                 ELSE IF invalid # {}
                 THEN FilterErr(config[CHOOSE i \in invalid : \A j \in invalid : i <= j])
                 ELSE FilterByPatterns(config, label, r_req.is_member))

\* the deny pattern comes after the allow pattern the label matches and
\* before a pattern that is no glob: the label is refused
C26_Witness ==
    /\ FilterChecked
    /\ r_req = [label |-> INominated, config |-> <<IStar, NotINoStar, OpenRange>>,
                is_member |-> "Unknown"]
    /\ r_checks[1].result = FilterDenyUnknown

----------------------------------------------------------------------------
(* Properties of the relabel command from chat                             *)

\* handle_input of relabel was called for the message and has returned
RelabelRan == channel = "relabel" /\ r_pc = "returned" /\ r_membership # NotCalled

\* check_filter refused a label of the command
AnyRefused == \E i \in 1..Len(r_checks) : r_checks[i].result.kind # "Allow"

\* the set of labels after the deltas, each applied to the set the deltas
\* before it left
RECURSIVE LabelsAfter(_, _)
LabelsAfter(labels, deltas) ==
    IF deltas = <<>> THEN labels
    ELSE LabelsAfter(IF Head(deltas).kind = "Add"
                     THEN labels \cup {Head(deltas).label}
                     ELSE labels \ {Head(deltas).label},
                     Tail(deltas))

\* a delta added a label that was absent or removed one that was present
TookEffect(labels, deltas) ==
    \E i \in 1..Len(deltas) :
        LabelsAfter(labels, SubSeq(deltas, 1, i)) # LabelsAfter(labels, SubSeq(deltas, 1, i - 1))

\* when a label of the command is refused one error comment is posted,
\* set_labels is not called and the labels of the issue stay as they were
RefusalIsAllOrNothing ==
    AnyRefused =>
        /\ Len(r_comments) = 1
        /\ r_set_labels = <<>>
        /\ r_labels = r_req.labels

\* C28 as stated: a command with a refused label posts exactly one error
\* comment, never calls set_labels and leaves the labels unchanged, even
\* when earlier deltas were allowed; set_labels is called at most once per
\* command and only when the label set actually changed
C28_AllOrNothing ==
    RelabelRan =>
        /\ RefusalIsAllOrNothing
        /\ Len(r_set_labels) <= 1
        /\ r_set_labels # <<>> => SeqRange(r_set_labels[1]) # SeqRange(r_req.labels)

\* C28 amended: as stated for a refused label; set_labels is called at most
\* once per command and only when no label was refused and some delta took
\* effect on the working copy of the labels (it added a label then absent
\* or removed one then present), with the labels the deltas lead to, which
\* are the labels the issue had when the deltas cancel each other
C28_SetLabelsWhenADeltaTookEffect ==
    RelabelRan =>
        /\ RefusalIsAllOrNothing
        /\ Len(r_set_labels) <= 1
        /\ r_set_labels # <<>> =>
                /\ ~AnyRefused
                /\ TookEffect(SeqRange(r_req.labels), r_req.deltas)
                /\ SeqRange(r_set_labels[1]) = LabelsAfter(SeqRange(r_req.labels), r_req.deltas)

\* the first delta was allowed and would add a label, the second is refused
C28_Witness ==
    /\ RelabelRan
    /\ r_membership = "Outsider"
    /\ r_req.labels = <<>>
    /\ r_req.deltas = <<LabelAdd(TRelease), LabelAdd(INominated)>>
    /\ Len(r_checks) = 2
    /\ r_checks[1].result = FilterAllow
    /\ r_checks[2].result = FilterDeny
    /\ Len(r_comments) = 1
    /\ r_set_labels = <<>>

\* C25: when mapping the chat sender to a code-hosting identity fails or
\* finds no identity, the handler replies with an explanation, mutates
\* neither the store nor labels, and the dispatch does not end in
\* HandlerError::Other, for manage_notifs and for relabel
C25_IdentityFailuresReplied ==
    /\ (z_pc = "returned" /\ z_executed = <<"manage_notifs">> /\ z_out = NoOut) =>
            /\ z_replies # <<>>
            /\ z_db = NoDbCall
            /\ store = z_before
            /\ z_result = OkResult
    /\ (channel = "relabel" /\ r_pc = "returned" /\ r_github_id \in {TeamApiFailed, None}) =>
            /\ r_replies # <<>>
            /\ r_set_labels = <<>>
            /\ r_labels = r_req.labels
            /\ r_result.kind # "Other"

====
